---- MODULE Spec2Model ----
(***************************************************************************)
(* State-machine model of the mariadb_exporter collection pipeline:        *)
(* scrape accounting (ScraperCollector / ScrapeTimer), the delta counters  *)
(* of the status collector, collector registration, the per-database pool  *)
(* cache, collector flag resolution and the registry's gather cycle.       *)
(***************************************************************************)
EXTENDS Integers, Sequences, FiniteSets, TLC

VARIABLES
    scraper,    \* ScraperCollector: the metric handles and ScraperState
    timers,     \* ScrapeTimer objects, by timer id
    now,        \* the clock read by Instant::now / SystemTime::now
    status,     \* StatusCollector: questions_total (IntCounter), questions_last (AtomicI64)
    observations,     \* Questions values read so far, one per sequential scrape
    trajectory,       \* questions_total after each sequential scrape
    server_questions, \* the server's Questions status value
    scrape,     \* overlapping scrapes inside set_counter_from_status, by scrape id
    registry,   \* prometheus Registry: the fully-qualified names registered
    registration, \* per collector: "none", or the result of register_metrics
    BASE_OPTS,  \* OnceCell<MySqlConnectOptions>
    DEFAULT_DB, \* OnceCell<String>
    POOLS,      \* OnceCell<RwLock<HashMap<String, MySqlPool>>>
    built,      \* the pools constructed so far: built[id] is the database of pool id
    inits,      \* calls of set_base_connect_options_from_dsn, by call id
    callers,    \* calls of get_or_create_pool_for_db, by call id
    argv,       \* the collector flags on the command line, in order
    args_override_self, \* whether the Command accepts a repeated flag
    cli,        \* the process after startup: parse outcome and enabled collectors
    mariadb_up, \* the mariadb_up gauge
    expositions, \* per completed gather: the serialized self-metrics and the samples emitted
    state_lock, \* holder of the write guard of ScraperCollector.state (0 when free)
    incrementers, \* calls of increment_scrapes in progress, by caller id
    calls_returned, \* number of increment_scrapes calls that have returned
    mariadb_version_info, \* IntGaugeVec {version, short_version}: the label rows and their values
    mariadb_version_num, \* IntGaugeVec {server}: the label rows and their values
    version_updates, \* the arguments of the update_version_metrics calls so far
    table_size_bytes, \* IntGaugeVec {schema, table}: the label rows (table_rows has the same rows)
    top_digest_latencies, \* IntGaugeVec {digest, schema}: the label rows
    EXCLUDED, \* OnceCell<Arc<[String]>>
    MARIADB_VERSION, \* OnceCell<i32>
    excluded_input, \* the list passed to the first set_excluded_databases call
    set_attempts, \* what the most recent set calls tried to store
    slave_gauges, \* per collector reading SHOW SLAVE STATUS: its last query result and its gauges
    version_string, \* the server's version string, as a sequence of characters
    normalized, \* the results of normalize_mariadb_version and VersionCollector::normalize_version
    QUERY_RESPONSE_TIME, \* information_schema.QUERY_RESPONSE_TIME on the server: (TIME, COUNT) rows
    response_time_bucket, \* ..._seconds_bucket: rows {le, value}
    response_time_count, \* ..._seconds_count
    response_time_sum, \* ..._seconds_sum, in hundredths of a second
    rows_read, \* the rows behind the published values, None before the first publication
    innodb_status, \* the Status text SHOW ENGINE INNODB STATUS returns, as its lines
    status_parser, \* StatusParser: the gauges
    parsed_text, \* the text of the latest parse call, None before the first
    written, \* the gauges the latest parse call has set
    parse_calls, \* parse calls made
    master_server_id_readings, \* the unsigned, signed and text readings of the Master_Server_Id column
    master_server_id_result, \* parse_master_server_id's result, None before the call
    master_server_id, \* the master_server_id gauge, a decimal numeral
    tasks, \* the sub-collector futures in FuturesUnordered, by sub-collector name
    compound, \* DefaultCollector::collect: its position, its result and the calls made
    instant, \* the monotonic clock read by Instant::now
    os_process, \* what the operating system reports for the exporter process
    system, \* SystemState: the sysinfo snapshot of the process and last_refresh
    process_gauges, \* ProcessCollector: cpu_percent, resident_memory_bytes, virtual_memory_bytes, open_fds
    stats_calls, \* collect_stats calls in progress: position and the instant read on entry
    global_status, \* the SHOW GLOBAL STATUS map of the latest scrape: Uptime, Innodb_row_lock_time, Questions
    sampled, \* StatusCollector: global_uptime, innodb_row_lock_time, questions_total, questions_last
    clean, \* the same metrics of a collector that was given the valid values only
    samples, \* scrapes made
    system_time, \* the wall clock read by SystemTime::now, in seconds
    recorders, \* calls of record_success / record_error for one collector, by caller id
    last_scrape_timestamp_seconds, \* the last_scrape_timestamp gauge row of that collector (-1: no row)
    ssl_data, \* the rows of the latest SHOW STATUS query of the TLS collector, by variable name
    ssl_server_configured, \* the mariadb_ssl_server_configured gauge
    ssl_version_info, \* mariadb_ssl_version_info: the {version, cipher} rows (each of value 1)
    ssl_cert_seconds, \* the not_before and not_after certificate gauges
    tls_collects \* TLS collects made

timerVars == <<scraper, timers, now>>
counterVars == <<status, observations, trajectory, server_questions, scrape>>

regVars == <<registry, registration>>

poolVars == <<BASE_OPTS, DEFAULT_DB, POOLS, built, inits, callers>>

cliVars == <<argv, args_override_self, cli>>
gatherVars == <<mariadb_up, expositions>>

incVars == <<state_lock, incrementers, calls_returned>>

versionVars == <<mariadb_version_info, mariadb_version_num, version_updates>>

cardVars == <<table_size_bytes, top_digest_latencies>>

globalsVars == <<EXCLUDED, MARIADB_VERSION, excluded_input, set_attempts>>

replVars == <<slave_gauges>>

normVars == <<version_string, normalized>>

qrtVars == <<QUERY_RESPONSE_TIME, response_time_bucket, response_time_count, response_time_sum, rows_read>>

innodbVars == <<innodb_status, status_parser, parsed_text, written, parse_calls>>

msidVars == <<master_server_id_readings, master_server_id_result, master_server_id>>

compoundVars == <<tasks, compound>>

processVars == <<instant, os_process, system, process_gauges, stats_calls>>

sampleVars == <<global_status, sampled, clean, samples>>

stampVars == <<system_time, recorders, last_scrape_timestamp_seconds>>

tlsVars == <<ssl_data, ssl_server_configured, ssl_version_info, ssl_cert_seconds, tls_collects>>

vars == <<timerVars, counterVars, regVars, poolVars, cliVars, gatherVars, incVars, versionVars, cardVars, globalsVars, replVars, normVars, qrtVars, innodbVars, msidVars, compoundVars, processVars, sampleVars, stampVars, tlsVars>>

othersTimer == <<counterVars, regVars, poolVars, cliVars, gatherVars, incVars, versionVars, cardVars, globalsVars, replVars, normVars, qrtVars, innodbVars, msidVars, compoundVars, processVars, sampleVars, stampVars, tlsVars>>
othersCounter == <<timerVars, regVars, poolVars, cliVars, gatherVars, incVars, versionVars, cardVars, globalsVars, replVars, normVars, qrtVars, innodbVars, msidVars, compoundVars, processVars, sampleVars, stampVars, tlsVars>>
othersReg == <<timerVars, counterVars, poolVars, cliVars, gatherVars, incVars, versionVars, cardVars, globalsVars, replVars, normVars, qrtVars, innodbVars, msidVars, compoundVars, processVars, sampleVars, stampVars, tlsVars>>
othersPool == <<timerVars, counterVars, regVars, cliVars, gatherVars, incVars, versionVars, cardVars, globalsVars, replVars, normVars, qrtVars, innodbVars, msidVars, compoundVars, processVars, sampleVars, stampVars, tlsVars>>
othersCli == <<timerVars, counterVars, regVars, poolVars, gatherVars, incVars, versionVars, cardVars, globalsVars, replVars, normVars, qrtVars, innodbVars, msidVars, compoundVars, processVars, sampleVars, stampVars, tlsVars>>
othersGather == <<counterVars, regVars, poolVars, cliVars, incVars, versionVars, cardVars, globalsVars, replVars, normVars, qrtVars, innodbVars, msidVars, compoundVars, processVars, sampleVars, stampVars, tlsVars>>
othersInc == <<counterVars, regVars, poolVars, cliVars, gatherVars, versionVars, cardVars, globalsVars, replVars, normVars, qrtVars, innodbVars, msidVars, compoundVars, processVars, sampleVars, stampVars, tlsVars>>
othersVersion == <<timerVars, counterVars, regVars, poolVars, cliVars, gatherVars, incVars, cardVars, globalsVars, replVars, normVars, qrtVars, innodbVars, msidVars, compoundVars, processVars, sampleVars, stampVars, tlsVars>>
othersCard == <<timerVars, counterVars, regVars, poolVars, cliVars, gatherVars, incVars, versionVars, globalsVars, replVars, normVars, qrtVars, innodbVars, msidVars, compoundVars, processVars, sampleVars, stampVars, tlsVars>>
othersGlobals == <<timerVars, counterVars, regVars, poolVars, cliVars, gatherVars, incVars, versionVars, cardVars, replVars, normVars, qrtVars, innodbVars, msidVars, compoundVars, processVars, sampleVars, stampVars, tlsVars>>
othersRepl == <<timerVars, counterVars, regVars, poolVars, cliVars, gatherVars, incVars, versionVars, cardVars, globalsVars, normVars, qrtVars, innodbVars, msidVars, compoundVars, processVars, sampleVars, stampVars, tlsVars>>
othersNorm == <<timerVars, counterVars, regVars, poolVars, cliVars, gatherVars, incVars, versionVars, cardVars, globalsVars, replVars, qrtVars, innodbVars, msidVars, compoundVars, processVars, sampleVars, stampVars, tlsVars>>
othersQrt == <<timerVars, counterVars, regVars, poolVars, cliVars, gatherVars, incVars, versionVars, cardVars, globalsVars, replVars, normVars, innodbVars, msidVars, compoundVars, processVars, sampleVars, stampVars, tlsVars>>
othersInnodb == <<timerVars, counterVars, regVars, poolVars, cliVars, gatherVars, incVars, versionVars, cardVars, globalsVars, replVars, normVars, qrtVars, msidVars, compoundVars, processVars, sampleVars, stampVars, tlsVars>>
othersMsid == <<timerVars, counterVars, regVars, poolVars, cliVars, gatherVars, incVars, versionVars, cardVars, globalsVars, replVars, normVars, qrtVars, innodbVars, compoundVars, processVars, sampleVars, stampVars, tlsVars>>
othersCompound == <<timerVars, counterVars, regVars, poolVars, cliVars, gatherVars, incVars, versionVars, cardVars, globalsVars, replVars, normVars, qrtVars, innodbVars, msidVars, processVars, sampleVars, stampVars, tlsVars>>
othersProcess == <<timerVars, counterVars, regVars, poolVars, cliVars, gatherVars, incVars, versionVars, cardVars, globalsVars, replVars, normVars, qrtVars, innodbVars, msidVars, compoundVars, sampleVars, stampVars, tlsVars>>
othersSample == <<timerVars, counterVars, regVars, poolVars, cliVars, gatherVars, incVars, versionVars, cardVars, globalsVars, replVars, normVars, qrtVars, innodbVars, msidVars, compoundVars, processVars, stampVars, tlsVars>>
othersStamp == <<timerVars, counterVars, regVars, poolVars, cliVars, gatherVars, incVars, versionVars, cardVars, globalsVars, replVars, normVars, qrtVars, innodbVars, msidVars, compoundVars, processVars, sampleVars, tlsVars>>
othersTls == <<timerVars, counterVars, regVars, poolVars, cliVars, gatherVars, incVars, versionVars, cardVars, globalsVars, replVars, normVars, qrtVars, innodbVars, msidVars, compoundVars, processVars, sampleVars, stampVars>>

(***************************************************************************)
(* Bounds of the model.                                                    *)
(***************************************************************************)
MaxTimers == 2
MaxClock == 2
MaxScrapes == 5
NumScrapes == 2
MaxServer == 3
NumInits == 2
NumCallers == 2
MaxArgs == 4
MaxGathers == 3
MaxCollectorSamples == 1
NumIncrementers == 3
MaxIncrements == 4
MaxVersionUpdates == 3
NumTables == 22
NumDigests == 7
MaxEntries == 3
MaxVersionLen == 5
\* Rows the plugin table QUERY_RESPONSE_TIME holds at most
MaxRows == 6
\* parse calls of the InnoDB status parser
MaxParses == 2
\* await points of a sub-collector, calls of a compound collect
MaxAwaits == 2
MaxCompoundCollects == 2
\* overlapping collect_stats calls, and the last instant of the clock
NumStatsCallers == 2
MaxInstant == 4
\* scrapes of the status values
MaxSamples == 3
\* overlapping record_success / record_error calls of one collector
NumRecorders == 3
\* seconds of wall clock
MaxSystemTime == 2
\* collects of the TLS collector
MaxTlsCollects == 2

TimerIds == 1..MaxTimers

\* Collector names used as the "collector" label of the scrape metrics.
TimedCollectors == {"default", "exporter"}

(***************************************************************************)
(* ScraperCollector (collectors/exporter/scraper.rs).                      *)
(* A label child that was never touched is absent from the family: the     *)
(* gauges use -1 for "no row", the histogram and counter use count 0.      *)
(***************************************************************************)
ScraperCollector_new ==
    [ scrape_duration_seconds |-> [c \in TimedCollectors |-> [count |-> 0, sum |-> 0]],
      scrape_errors_total     |-> [c \in TimedCollectors |-> 0],
      last_scrape_timestamp   |-> [c \in TimedCollectors |-> -1],
      last_scrape_success     |-> [c \in TimedCollectors |-> -1],
      metrics_total           |-> 0,
      scrapes_total           |-> 0,
      state                   |-> [total_scrapes |-> 0, total_metrics |-> 0] ]

\* record_success: observe the duration, set the timestamp, set success = 1.
record_success(s, collector_name, duration, timestamp) ==
    [s EXCEPT
        !.scrape_duration_seconds[collector_name] =
            [count |-> @.count + 1, sum |-> @.sum + duration],
        !.last_scrape_timestamp[collector_name] = timestamp,
        !.last_scrape_success[collector_name] = 1]

\* record_error: count the error, set the timestamp, set success = 0.
\* No duration is observed on this path.
record_error(s, collector_name, timestamp) ==
    [s EXCEPT
        !.scrape_errors_total[collector_name] = @ + 1,
        !.last_scrape_timestamp[collector_name] = timestamp,
        !.last_scrape_success[collector_name] = 0]

\* A Drop that records an error instead of a success.
ScrapeTimer_drop_records_error(s, collector_name, start, clock) ==
    record_error(s, collector_name, clock)

\* Drop for ScrapeTimer: runs whenever a timer value goes out of scope,
\* which includes the end of success(self) and error(self), both of which
\* take the timer by value and neither of which forgets it.
ScrapeTimer_drop(s, collector_name, start, clock) ==
    record_success(s, collector_name, clock - start, clock)

\* ScrapeTimer::success(self): record_success, then self is dropped.
ScrapeTimer_success(s, collector_name, start, clock) ==
    ScrapeTimer_drop(record_success(s, collector_name, clock - start, clock),
                     collector_name, start, clock)

\* ScrapeTimer::error(self): record_error, then self is dropped.
ScrapeTimer_error(s, collector_name, start, clock) ==
    ScrapeTimer_drop(record_error(s, collector_name, clock),
                     collector_name, start, clock)

(***************************************************************************)
(* StatusCollector delta counters (collectors/default/status.rs).          *)
(***************************************************************************)
ScrapeIds == 1..NumScrapes

\* Questions values a scrape can read from global_status (all parse as i64).
ObservedValues == {-1, 0, 50, 75, 100, 150, 200}

\* StatusCollector::new: counter 0, last_seen 0.
StatusCollector_new == [questions_total |-> 0, questions_last |-> 0]

\* counter_update with the restart branch failing to reset the counter.
counter_update_keeps_on_restart(previous, v) ==
    IF v >= 0
    THEN IF previous <= 0
         THEN [skip |-> FALSE, reset |-> TRUE, incr |-> v]
         ELSE IF v >= previous
              THEN [skip |-> FALSE, reset |-> FALSE, incr |-> v - previous]
              ELSE [skip |-> FALSE, reset |-> FALSE, incr |-> v]
    ELSE [skip |-> TRUE, reset |-> FALSE, incr |-> 0]

\* The branch set_counter_from_status takes after the swap returned
\* `previous`: whether the counter is reset, and by how much it is then
\* incremented; "skip" when v < 0.
counter_update(previous, v) ==
    IF v >= 0
    THEN IF previous <= 0
         THEN [skip |-> FALSE, reset |-> TRUE, incr |-> v]
         ELSE IF v >= previous
              THEN [skip |-> FALSE, reset |-> FALSE, incr |-> v - previous]
              ELSE [skip |-> FALSE, reset |-> TRUE, incr |-> v]
    ELSE [skip |-> TRUE, reset |-> FALSE, incr |-> 0]

\* set_counter_from_status run to completion with no other scrape inside it.
set_counter_from_status(st, v) ==
    LET previous == st.questions_last
        u == counter_update(previous, v)
    IN  [ questions_last  |-> v,
          questions_total |-> IF u.skip THEN st.questions_total
                              ELSE (IF u.reset THEN 0 ELSE st.questions_total) + u.incr ]

IdleScrape == [pc |-> "idle", v |-> 0, previous |-> 0]

CounterInit ==
    /\ status = StatusCollector_new
    /\ observations = <<>>
    /\ trajectory = <<>>
    /\ server_questions = 0
    /\ scrape = [i \in ScrapeIds |-> IdleScrape]

\* One scrape at a time: collect_global_status reads Questions = v and runs
\* set_counter_from_status.
collect_global_status(v) ==
    /\ Len(observations) < MaxScrapes
    /\ status' = set_counter_from_status(status, v)
    /\ observations' = Append(observations, v)
    /\ trajectory' = Append(trajectory, status'.questions_total)
    /\ UNCHANGED <<server_questions, scrape>>
    /\ UNCHANGED othersCounter

CollectStatus == \E v \in ObservedValues : collect_global_status(v)


\* Overlapping scrapes. The state before them is a fresh collector or one
\* that has completed a scrape observing Questions = 1.
RaceInit ==
    /\ \E b \in {0, 1} :
        /\ status = [questions_total |-> b, questions_last |-> b]
        /\ observations = IF b = 0 THEN <<>> ELSE <<b>>
        /\ trajectory = IF b = 0 THEN <<>> ELSE <<b>>
        /\ server_questions = b
    /\ scrape = [i \in ScrapeIds |-> IdleScrape]

\* The server executes statements: Questions grows (no restart).
ServerGrow ==
    /\ server_questions < MaxServer
    /\ server_questions' = server_questions + 1
    /\ UNCHANGED <<status, observations, trajectory, scrape>>
    /\ UNCHANGED othersCounter

\* Scrape i reads global_status.
query_status(i) ==
    /\ scrape[i].pc = "idle"
    /\ scrape' = [scrape EXCEPT ![i] = [pc |-> "queried", v |-> server_questions, previous |-> 0]]
    /\ UNCHANGED <<status, observations, trajectory, server_questions>>
    /\ UNCHANGED othersCounter

\* let previous = last_seen.swap(v, Ordering::Relaxed)
swap_last_seen(i) ==
    /\ scrape[i].pc = "queried"
    /\ status' = [status EXCEPT !.questions_last = scrape[i].v]
    /\ scrape' = [scrape EXCEPT
                    ![i].previous = status.questions_last,
                    ![i].pc = IF counter_update(status.questions_last, scrape[i].v).skip
                              THEN "done" ELSE "swapped"]
    /\ UNCHANGED <<observations, trajectory, server_questions>>
    /\ UNCHANGED othersCounter

\* counter.reset()
counter_reset(i) ==
    /\ scrape[i].pc = "swapped"
    /\ counter_update(scrape[i].previous, scrape[i].v).reset
    /\ status' = [status EXCEPT !.questions_total = 0]
    /\ scrape' = [scrape EXCEPT ![i].pc = "reset"]
    /\ UNCHANGED <<observations, trajectory, server_questions>>
    /\ UNCHANGED othersCounter

\* counter.inc_by(incr)
counter_inc_by(i) ==
    /\ \/ scrape[i].pc = "reset"
       \/ scrape[i].pc = "swapped" /\ ~counter_update(scrape[i].previous, scrape[i].v).reset
    /\ status' = [status EXCEPT
                    !.questions_total = @ + counter_update(scrape[i].previous, scrape[i].v).incr]
    /\ scrape' = [scrape EXCEPT ![i].pc = "done"]
    /\ UNCHANGED <<observations, trajectory, server_questions>>
    /\ UNCHANGED othersCounter

QueryStatus == \E i \in ScrapeIds : query_status(i)
SwapLastSeen == \E i \in ScrapeIds : swap_last_seen(i)
CounterReset == \E i \in ScrapeIds : counter_reset(i)
CounterIncBy == \E i \in ScrapeIds : counter_inc_by(i)

(***************************************************************************)
(* Collector registration (collectors/mod.rs, register_macro.rs and each   *)
(* collector's register_metrics).                                          *)
(***************************************************************************)
\* register_collectors! { ... }: the registered collectors, in order.
COLLECTOR_NAMES ==
    << "default", "exporter", "tls", "query_response_time", "statements", "schema",
       "replication", "locks", "metadata", "userstat", "innodb" >>

CollectorNameSet == {COLLECTOR_NAMES[i] : i \in DOMAIN COLLECTOR_NAMES}

\* VersionCollector: the handles its register_metrics registers, in order.
VersionCollector_metrics ==
    << "mariadb_version_info",
       "mariadb_version_num",
       "mariadb_exporter_system_memory_total_bytes" >>

\* StatusCollector: the handles its register_metrics registers, in order.
StatusCollector_metrics ==
    << "mariadb_global_status_uptime_seconds",
       "mariadb_global_status_threads_connected",
       "mariadb_global_status_threads_running",
       "mariadb_global_status_connections",
       "mariadb_global_status_max_used_connections",
       "mariadb_global_status_aborted_connects",
       "mariadb_global_status_aborted_clients",
       "mariadb_global_status_bytes_received",
       "mariadb_global_status_bytes_sent",
       "mariadb_global_status_slow_queries",
       "mariadb_global_status_open_files",
       "mariadb_global_status_open_tables",
       "mariadb_global_status_table_locks_immediate",
       "mariadb_global_status_table_locks_waited",
       "mariadb_global_status_created_tmp_disk_tables",
       "mariadb_global_status_created_tmp_tables",
       "mariadb_global_status_created_tmp_files",
       "mariadb_global_status_connection_errors_max_connections",
       "mariadb_global_status_connection_errors_too_many_connections",
       "mariadb_global_status_connection_errors_refused",
       "mariadb_global_status_sort_merge_passes",
       "mariadb_global_status_sort_range",
       "mariadb_global_status_sort_rows",
       "mariadb_global_status_sort_scan",
       "mariadb_global_status_select_full_join",
       "mariadb_global_status_select_full_range_join",
       "mariadb_global_status_select_range",
       "mariadb_global_status_select_range_check",
       "mariadb_global_status_select_scan",
       "mariadb_global_status_handler_read_first",
       "mariadb_global_status_handler_read_key",
       "mariadb_global_status_handler_read_next",
       "mariadb_global_status_handler_read_prev",
       "mariadb_global_status_handler_read_rnd",
       "mariadb_global_status_handler_read_rnd_next",
       "mariadb_global_status_handler_write",
       "mariadb_global_status_handler_update",
       "mariadb_global_status_handler_delete",
       "mariadb_global_status_opened_tables",
       "mariadb_global_status_opened_files",
       "mariadb_global_status_table_open_cache_hits",
       "mariadb_global_status_table_open_cache_misses",
       "mariadb_global_status_table_open_cache_overflows",
       "mariadb_global_status_threads_created",
       "mariadb_global_status_threads_cached",
       "mariadb_global_status_key_read_requests",
       "mariadb_global_status_key_reads",
       "mariadb_global_status_key_write_requests",
       "mariadb_global_status_key_writes",
       "mariadb_global_status_key_blocks_unused",
       "mariadb_global_status_key_blocks_used",
       "mariadb_global_status_key_blocks_not_flushed",
       "mariadb_innodb_buffer_pool_pages_data",
       "mariadb_innodb_buffer_pool_pages_dirty",
       "mariadb_innodb_buffer_pool_pages_free",
       "mariadb_innodb_buffer_pool_size_bytes",
       "mariadb_innodb_buffer_pool_bytes_dirty",
       "mariadb_innodb_buffer_pool_read_requests",
       "mariadb_innodb_buffer_pool_reads",
       "mariadb_innodb_buffer_pool_write_requests",
       "mariadb_innodb_log_waits",
       "mariadb_innodb_log_written",
       "mariadb_innodb_log_write_requests",
       "mariadb_innodb_row_lock_time_seconds",
       "mariadb_innodb_row_lock_waits",
       "mariadb_innodb_row_lock_current_waits",
       "mariadb_innodb_history_list_length",
       "mariadb_innodb_data_pending_reads",
       "mariadb_innodb_data_pending_writes",
       "mariadb_innodb_data_pending_fsyncs",
       "mariadb_innodb_rows_read",
       "mariadb_innodb_rows_inserted",
       "mariadb_innodb_rows_updated",
       "mariadb_innodb_rows_deleted",
       "mariadb_innodb_data_reads",
       "mariadb_innodb_data_writes",
       "mariadb_innodb_data_read_bytes",
       "mariadb_innodb_data_written_bytes",
       "mariadb_innodb_data_fsyncs",
       "mariadb_innodb_deadlocks_total",
       "mariadb_innodb_lock_timeouts_total",
       "mariadb_innodb_buffer_pool_pages_misc",
       "mariadb_innodb_buffer_pool_pages_total",
       "mariadb_innodb_buffer_pool_wait_free",
       "mariadb_innodb_buffer_pool_read_ahead",
       "mariadb_innodb_buffer_pool_read_ahead_evicted",
       "mariadb_innodb_os_log_written_bytes",
       "mariadb_innodb_os_log_fsyncs",
       "mariadb_innodb_os_log_pending_writes",
       "mariadb_innodb_os_log_pending_fsyncs",
       "mariadb_innodb_log_write_ratio",
       "mariadb_slave_status_seconds_behind_master",
       "mariadb_slave_status_sql_running",
       "mariadb_slave_status_io_running",
       "mariadb_binlog_bytes_written",
       "mariadb_binlog_cache_disk_use",
       "mariadb_binlog_stmt_cache_disk_use",
       "mariadb_global_variables_have_ssl",
       "mariadb_global_variables_have_openssl",
       "mariadb_global_variables_performance_schema",
       "mariadb_global_status_questions_total",
       "mariadb_global_status_queries_total" >>

\* PluginsCollector: the handles its register_metrics registers, in order.
PluginsCollector_metrics ==
    << "mariadb_audit_log_enabled",
       "mariadb_userstat_enabled" >>

\* ProcessCollector: the handles its register_metrics registers, in order.
ProcessCollector_metrics ==
    << "mariadb_exporter_process_cpu_percent",
       "mariadb_exporter_process_cpu_cores",
       "mariadb_exporter_process_resident_memory_bytes",
       "mariadb_exporter_process_virtual_memory_bytes",
       "mariadb_exporter_process_open_fds",
       "mariadb_exporter_process_start_time_seconds" >>

\* ScraperCollector: the handles its register_metrics registers, in order.
ScraperCollector_metrics ==
    << "mariadb_exporter_collector_scrape_duration_seconds",
       "mariadb_exporter_collector_scrape_errors_total",
       "mariadb_exporter_collector_last_scrape_timestamp_seconds",
       "mariadb_exporter_collector_last_scrape_success",
       "mariadb_exporter_metrics_total",
       "mariadb_exporter_scrapes_total" >>

\* TlsCollector: the handles its register_metrics registers, in order.
TlsCollector_metrics ==
    << "mariadb_ssl_server_configured",
       "mariadb_ssl_version_info",
       "mariadb_ssl_cert_not_before_seconds",
       "mariadb_ssl_cert_not_after_seconds" >>

\* QueryResponseTimeCollector: the handles its register_metrics registers, in order.
QueryResponseTimeCollector_metrics ==
    << "mariadb_info_schema_query_response_time_seconds" >>

\* StatementsCollector: the handles its register_metrics registers, in order.
StatementsCollector_metrics ==
    << "mariadb_perf_schema_digest_total",
       "mariadb_perf_schema_digest_errors_total",
       "mariadb_perf_schema_digest_warnings_total",
       "mariadb_perf_schema_digest_rows_examined_total",
       "mariadb_perf_schema_digest_rows_sent_total",
       "mariadb_perf_schema_digest_latency_seconds_total",
       "mariadb_perf_schema_digest_latency_seconds" >>

\* SchemaCollector: the handles its register_metrics registers, in order.
SchemaCollector_metrics ==
    << "mariadb_info_schema_table_size_bytes",
       "mariadb_info_schema_table_rows" >>

\* ReplicationCollector: the handles its register_metrics registers, in order.
ReplicationCollector_metrics ==
    << "mariadb_replica_relay_log_space_bytes",
       "mariadb_replica_relay_log_pos",
       "mariadb_primary_binlog_files",
       "mariadb_replica_seconds_behind_master_seconds",
       "mariadb_replica_io_running",
       "mariadb_replica_sql_running",
       "mariadb_replica_last_io_errno",
       "mariadb_replica_last_sql_errno",
       "mariadb_replica_master_server_id" >>

\* LocksCollector: the handles its register_metrics registers, in order.
LocksCollector_metrics ==
    << "mariadb_perf_schema_metadata_lock_count",
       "mariadb_perf_schema_table_lock_waits" >>

\* MetadataCollector: the handles its register_metrics registers, in order.
MetadataCollector_metrics ==
    << "mariadb_metadata_lock_info_count" >>

\* UserStatCollector: the handles its register_metrics registers, in order.
UserStatCollector_metrics ==
    << "mariadb_userstat_enabled",
       "mariadb_info_schema_userstats_connections_total",
       "mariadb_info_schema_userstats_bytes_received_total",
       "mariadb_info_schema_userstats_bytes_sent_total",
       "mariadb_info_schema_userstats_rows_read_total",
       "mariadb_info_schema_userstats_rows_sent_total",
       "mariadb_info_schema_userstats_rows_deleted_total",
       "mariadb_info_schema_userstats_rows_inserted_total",
       "mariadb_info_schema_userstats_rows_updated_total" >>

\* InnodbCollector: the handles its register_metrics registers, in order.
InnodbCollector_metrics ==
    << "mariadb_innodb_lsn_current",
       "mariadb_innodb_lsn_flushed",
       "mariadb_innodb_lsn_checkpoint",
       "mariadb_innodb_checkpoint_age_bytes",
       "mariadb_innodb_active_transactions",
       "mariadb_innodb_semaphore_waits_total",
       "mariadb_innodb_semaphore_wait_time_ms_total",
       "mariadb_innodb_adaptive_hash_searches_total",
       "mariadb_innodb_adaptive_hash_searches_btree_total" >>

\* The handles a collector made by its factory registers, in order. The
\* compound collectors register their sub-collectors' handles in turn and
\* stop at the first error, like one flat loop.
collector_metrics(name) ==
    CASE name = "default" ->
            VersionCollector_metrics \o StatusCollector_metrics \o PluginsCollector_metrics
      [] name = "exporter" -> ProcessCollector_metrics \o ScraperCollector_metrics
      [] name = "tls" -> TlsCollector_metrics
      [] name = "query_response_time" -> QueryResponseTimeCollector_metrics
      [] name = "statements" -> StatementsCollector_metrics
      [] name = "schema" -> SchemaCollector_metrics
      [] name = "replication" -> ReplicationCollector_metrics
      [] name = "locks" -> LocksCollector_metrics
      [] name = "metadata" -> MetadataCollector_metrics
      [] name = "userstat" -> UserStatCollector_metrics
      [] name = "innodb" -> InnodbCollector_metrics

\* registry.register(handle)?, for each handle in turn: a handle whose
\* fully-qualified name is already registered is refused (AlreadyReg) and
\* the `?` returns the error; the handles registered before it stay.
RECURSIVE register_all(_, _)
register_all(reg, handles) ==
    IF handles = <<>> THEN [names |-> reg, ok |-> TRUE]
    ELSE IF Head(handles) \in reg THEN [names |-> reg, ok |-> FALSE]
    ELSE register_all(reg \cup {Head(handles)}, Tail(handles))

RegInit ==
    /\ registry = {}
    /\ registration = [c \in CollectorNameSet |-> "none"]

\* factory() then collector.register_metrics(&registry), on the shared registry.
register_metrics(c) ==
    /\ registration[c] = "none"
    /\ LET r == register_all(registry, collector_metrics(c)) IN
        /\ registry' = r.names
        /\ registration' = [registration EXCEPT ![c] = IF r.ok THEN "ok" ELSE "err"]
    /\ UNCHANGED othersReg

RegisterMetrics == \E c \in CollectorNameSet : register_metrics(c)

(***************************************************************************)
(* Process-wide connection state and the per-database pool cache           *)
(* (collectors/util.rs).                                                   *)
(***************************************************************************)
InitIds == 1..NumInits
CallerIds == 1..NumCallers

Databases == {"app", "mysql"}

\* DSNs: whether MySqlConnectOptions::from_str accepts it, and the URL path
\* with the leading '/' trimmed ("" when there is none).
Dsns == { [parses |-> TRUE, path |-> "app"],
          [parses |-> TRUE, path |-> ""],
          [parses |-> FALSE, path |-> ""] }

\* parse_database_from_dsn(dsn).unwrap_or_else(|| "mysql")
default_database_of(dsn) == IF dsn.path = "" THEN "mysql" ELSE dsn.path

\* An unset OnceCell.
Unset(v) == [set |-> FALSE, value |-> v]

\* OnceCell::set replacing a value that is already there.
OnceCell_set_overwrites(cell, v) == [set |-> TRUE, value |-> v]

\* OnceCell::set, which keeps the first value.
OnceCell_set(cell, v) == IF cell.set THEN cell ELSE [set |-> TRUE, value |-> v]

EmptyPoolMap == [d \in Databases |-> 0]

\* further: whether the call was made after an earlier call had returned Ok
IdleInit ==
    [pc |-> "idle", dsn |-> [parses |-> FALSE, path |-> ""], result |-> "none", further |-> FALSE]
IdleCaller == [pc |-> "idle", datname |-> "app", pool |-> 0, result |-> "none"]

PoolInit ==
    /\ BASE_OPTS = Unset([parses |-> FALSE, path |-> ""])
    /\ DEFAULT_DB = Unset("")
    /\ POOLS = Unset(EmptyPoolMap)
    /\ built = <<>>
    /\ inits = [i \in InitIds |-> IdleInit]
    /\ callers = [k \in CallerIds |-> IdleCaller]

\* set_base_connect_options_from_dsn(dsn) is called; `if BASE_OPTS.get().is_none()`
\* and, inside it, MySqlConnectOptions::from_str(dsn)?.
init_check_base(i, dsn) ==
    /\ inits[i].pc = "idle"
    /\ inits' = [inits EXCEPT ![i] =
                    LET further == \E j \in InitIds : inits[j].result = "ok" IN
                    IF BASE_OPTS.set
                    THEN [pc |-> "check_pools", dsn |-> dsn, result |-> "none", further |-> further]
                    ELSE IF dsn.parses
                    THEN [pc |-> "set_base", dsn |-> dsn, result |-> "none", further |-> further]
                    ELSE [pc |-> "done", dsn |-> dsn, result |-> "err", further |-> further]]
    /\ UNCHANGED <<BASE_OPTS, DEFAULT_DB, POOLS, built, callers>>
    /\ UNCHANGED othersPool

\* let _ = BASE_OPTS.set(opts.clone());
init_set_base(i) ==
    /\ inits[i].pc = "set_base"
    /\ BASE_OPTS' = OnceCell_set(BASE_OPTS, inits[i].dsn)
    /\ inits' = [inits EXCEPT ![i].pc = "set_default"]
    /\ UNCHANGED <<DEFAULT_DB, POOLS, built, callers>>
    /\ UNCHANGED othersPool

\* let _ = DEFAULT_DB.set(dbname);
init_set_default(i) ==
    /\ inits[i].pc = "set_default"
    /\ DEFAULT_DB' = OnceCell_set(DEFAULT_DB, default_database_of(inits[i].dsn))
    /\ inits' = [inits EXCEPT ![i].pc = "check_pools"]
    /\ UNCHANGED <<BASE_OPTS, POOLS, built, callers>>
    /\ UNCHANGED othersPool

\* if POOLS.get().is_none() { let _ = POOLS.set(RwLock::new(HashMap::new())); } Ok(())
init_set_pools(i) ==
    /\ inits[i].pc = "check_pools"
    /\ POOLS' = OnceCell_set(POOLS, EmptyPoolMap)
    /\ inits' = [inits EXCEPT ![i].pc = "done", ![i].result = "ok"]
    /\ UNCHANGED <<BASE_OPTS, DEFAULT_DB, built, callers>>
    /\ UNCHANGED othersPool

\* get_or_create_pool_for_db(datname) is called: the default-database check.
call_check_default(k, datname) ==
    /\ callers[k].pc = "idle"
    /\ callers' = [callers EXCEPT ![k] =
                    IF DEFAULT_DB.set /\ DEFAULT_DB.value = datname
                    THEN [pc |-> "done", datname |-> datname, pool |-> 0, result |-> "err"]
                    ELSE [pc |-> "get_pools", datname |-> datname, pool |-> 0, result |-> "none"]]
    /\ UNCHANGED <<BASE_OPTS, DEFAULT_DB, POOLS, built, inits>>
    /\ UNCHANGED othersPool

\* let pools = POOLS.get().ok_or_else(..)?
call_get_pools(k) ==
    /\ callers[k].pc = "get_pools"
    /\ callers' = [callers EXCEPT ![k] =
                    IF POOLS.set THEN [@ EXCEPT !.pc = "lookup"]
                    ELSE [@ EXCEPT !.pc = "done", !.result = "err"]]
    /\ UNCHANGED <<BASE_OPTS, DEFAULT_DB, POOLS, built, inits>>
    /\ UNCHANGED othersPool

\* { let guard = pools.read().await; if let Some(pool) = guard.get(datname) {
\*   return Ok(pool.clone()); } }  The guard is released at the end of the
\* block; no suspension point lies inside it.
call_lookup(k) ==
    /\ callers[k].pc = "lookup"
    /\ callers' = [callers EXCEPT ![k] =
                    IF POOLS.value[callers[k].datname] # 0
                    THEN [@ EXCEPT !.pc = "done", !.result = "ok",
                                   !.pool = POOLS.value[callers[k].datname]]
                    ELSE [@ EXCEPT !.pc = "connect"]]
    /\ UNCHANGED <<BASE_OPTS, DEFAULT_DB, POOLS, built, inits>>
    /\ UNCHANGED othersPool

\* connect_options_for_db(datname)? and MySqlPoolOptions::new()...
\* .connect_with(opts).await?: a pool is constructed, or the connection fails.
\* No lock is held here.
call_connect(k) ==
    /\ callers[k].pc = "connect"
    /\ \/ /\ BASE_OPTS.set
          /\ built' = Append(built, callers[k].datname)
          /\ callers' = [callers EXCEPT ![k].pc = "insert", ![k].pool = Len(built) + 1]
       \/ /\ built' = built
          /\ callers' = [callers EXCEPT ![k].pc = "done", ![k].result = "err"]
    /\ UNCHANGED <<BASE_OPTS, DEFAULT_DB, POOLS, inits>>
    /\ UNCHANGED othersPool

\* { let mut guard = pools.write().await; guard.insert(datname, pool.clone()); } Ok(pool)
call_insert(k) ==
    /\ callers[k].pc = "insert"
    /\ POOLS' = [POOLS EXCEPT !.value[callers[k].datname] = callers[k].pool]
    /\ callers' = [callers EXCEPT ![k].pc = "done", ![k].result = "ok"]
    /\ UNCHANGED <<BASE_OPTS, DEFAULT_DB, built, inits>>
    /\ UNCHANGED othersPool

InitCheckBase == \E i \in InitIds, dsn \in Dsns : init_check_base(i, dsn)
InitSetBase == \E i \in InitIds : init_set_base(i)
InitSetDefault == \E i \in InitIds : init_set_default(i)
InitSetPools == \E i \in InitIds : init_set_pools(i)
CallCheckDefault == \E k \in CallerIds, d \in Databases : call_check_default(k, d)
CallGetPools == \E k \in CallerIds : call_get_pools(k)
CallLookup == \E k \in CallerIds : call_lookup(k)
CallConnect == \E k \in CallerIds : call_connect(k)
CallInsert == \E k \in CallerIds : call_insert(k)

(***************************************************************************)
(* Collector flags: add_collectors_args (cli/commands/collectors.rs) and   *)
(* get_enabled_collectors (cli/dispatch/mod.rs).                           *)
(***************************************************************************)
\* The collectors whose flags appear on the modelled command lines: the one
\* enabled by default and two that are not.
FlagCollectors == {"default", "exporter", "tls"}

\* Collector::enabled_by_default
enabled_by_default(name) == name = "default"

\* Arg ids: --collector.<name> and --no-collector.<name>
enable_flag(name) == [name |-> name, enable |-> TRUE]
disable_flag(name) == [name |-> name, enable |-> FALSE]
Flags == {enable_flag(n) : n \in FlagCollectors} \cup {disable_flag(n) : n \in FlagCollectors}

\* .overrides_with(enable_flag) on the disable flag only
overrides(arg) == IF arg.enable THEN {} ELSE {enable_flag(arg.name)}

\* .default_value(..) of the enable flag; a SetTrue flag defaults to false
default_value(arg) == IF arg.enable THEN enabled_by_default(arg.name) ELSE FALSE

\* One occurrence of a SetTrue flag on the command line. matcher is the set of
\* flags currently present.  A flag that is still present is a repeated
\* occurrence; otherwise the flags it overrides, and the present flags that
\* override it, are removed before it is recorded.
react(m, arg, override_self) ==
    IF ~m.ok THEN m
    ELSE IF arg \in m.present /\ ~override_self THEN [ok |-> FALSE, present |-> m.present]
    ELSE [ok |-> TRUE,
          present |-> ((m.present \ overrides(arg))
                        \ {a \in m.present : arg \in overrides(a)}) \cup {arg}]

\* Command::try_get_matches_from: the occurrences in command-line order
RECURSIVE get_matches_from(_, _)
get_matches_from(args, override_self) ==
    IF args = <<>> THEN [ok |-> TRUE, present |-> {}]
    ELSE react(get_matches_from(SubSeq(args, 1, Len(args) - 1), override_self),
               args[Len(args)], override_self)

\* ArgMatches::get_flag: the occurrence's value, or the default value
get_flag(matches, arg) == IF arg \in matches.present THEN TRUE ELSE default_value(arg)

\* The filter of get_enabled_collectors with the enable flag tested first.
collector_filter_enable_first(matches, name) ==
    IF get_flag(matches, enable_flag(name)) THEN TRUE
    ELSE IF get_flag(matches, disable_flag(name)) THEN FALSE
    ELSE enabled_by_default(name)

\* The filter closure of get_enabled_collectors
collector_filter(matches, name) ==
    IF get_flag(matches, disable_flag(name)) THEN FALSE
    ELSE IF get_flag(matches, enable_flag(name)) THEN TRUE
    ELSE enabled_by_default(name)

get_enabled_collectors(matches) == {name \in FlagCollectors : collector_filter(matches, name)}

CommandLines == UNION {[1..n -> Flags] : n \in 0..MaxArgs}

CliInit ==
    /\ argv \in CommandLines
    /\ args_override_self \in BOOLEAN
    /\ cli = [pc |-> "start", enabled |-> {}]

\* The idle command line of the specifications that are not about startup.
CliIdle ==
    /\ argv = <<>>
    /\ args_override_self = FALSE
    /\ cli = [pc |-> "start", enabled |-> {}]

\* Startup: parse the command line (a usage error exits), then compute the
\* enabled collectors.
Startup ==
    /\ cli.pc = "start"
    /\ LET matches == get_matches_from(argv, args_override_self) IN
         cli' = IF matches.ok
                THEN [pc |-> "running", enabled |-> get_enabled_collectors(matches)]
                ELSE [pc |-> "exited", enabled |-> {}]
    /\ UNCHANGED <<argv, args_override_self>>
    /\ UNCHANGED othersCli

UnusedTimer == [state |-> "unused", collector_name |-> "default", start |-> 0, ended |-> "none"]

TimerInit ==
    /\ scraper = ScraperCollector_new
    /\ timers = [t \in TimerIds |-> UnusedTimer]
    /\ now = 0

\* The clock advances.
Tick ==
    /\ now < MaxClock
    /\ now' = now + 1
    /\ UNCHANGED <<scraper, timers>>
    /\ UNCHANGED othersTimer

\* ScraperCollector::start_scrape(collector_name)
start_scrape(t, c) ==
    /\ timers[t].state = "unused"
    /\ \A u \in TimerIds : u < t => timers[u].state # "unused"
    /\ timers' = [timers EXCEPT ![t] =
                    [state |-> "live", collector_name |-> c, start |-> now, ended |-> "none"]]
    /\ UNCHANGED <<scraper, now>>
    /\ UNCHANGED othersTimer

\* timer.success()
success(t) ==
    /\ timers[t].state = "live"
    /\ scraper' = ScrapeTimer_success(scraper, timers[t].collector_name, timers[t].start, now)
    /\ timers' = [timers EXCEPT ![t].state = "released", ![t].ended = "success"]
    /\ UNCHANGED now
    /\ UNCHANGED othersTimer

\* timer.error()
error(t) ==
    /\ timers[t].state = "live"
    /\ scraper' = ScrapeTimer_error(scraper, timers[t].collector_name, timers[t].start, now)
    /\ timers' = [timers EXCEPT ![t].state = "released", ![t].ended = "error"]
    /\ UNCHANGED now
    /\ UNCHANGED othersTimer

\* The timer goes out of scope with neither success() nor error() called.
drop(t) ==
    /\ timers[t].state = "live"
    /\ scraper' = ScrapeTimer_drop(scraper, timers[t].collector_name, timers[t].start, now)
    /\ timers' = [timers EXCEPT ![t].state = "released", ![t].ended = "drop"]
    /\ UNCHANGED now
    /\ UNCHANGED othersTimer

StartScrape == \E t \in TimerIds, c \in TimedCollectors : start_scrape(t, c)
TimerSuccess == \E t \in TimerIds : success(t)
TimerError == \E t \in TimerIds : error(t)
TimerDrop == \E t \in TimerIds : drop(t)

(***************************************************************************)
(* The registry's gather: scrape accounting around the collectors and the  *)
(* self-reported cardinality.                                              *)
(***************************************************************************)
\* Buckets of scrape_duration_seconds
NumBuckets == 11

\* update_metrics_count writing the state only, not the gauge.
update_metrics_count_state_only(s, count) ==
    [s EXCEPT !.state.total_metrics = count]

\* ScraperCollector::update_metrics_count
update_metrics_count(s, count) ==
    [s EXCEPT !.metrics_total = count, !.state.total_metrics = count]

\* ScraperCollector::increment_scrapes
increment_scrapes(s) ==
    [s EXCEPT !.state.total_scrapes = @ + 1, !.scrapes_total = s.state.total_scrapes + 1]

\* One dispatch wrapped in a scrape timer: start_scrape, then success() or
\* error() according to the collector's result.
timed_dispatch(s, name, ok, clock) ==
    IF ok THEN ScrapeTimer_success(s, name, clock, clock)
    ELSE ScrapeTimer_error(s, name, clock, clock)

\* All enabled collectors dispatched; every one has finished before the
\* registry is serialized.
RECURSIVE dispatch_all(_, _, _, _)
dispatch_all(s, names, results, clock) ==
    IF names = {} THEN s
    ELSE LET name == CHOOSE c \in names : TRUE IN
         dispatch_all(timed_dispatch(s, name, results[name], clock),
                      names \ {name}, results, clock)

\* Samples in the exposition text: one line per histogram bucket, +Inf, _sum
\* and _count for every labelled histogram child, one line per child of the
\* other labelled handles, metrics_total, scrapes_total, mariadb_up, and the
\* samples of the collectors' own handles.
sample_count(s, collector_samples) ==
    Cardinality({c \in TimedCollectors : s.scrape_duration_seconds[c].count > 0}) * (NumBuckets + 3)
    + Cardinality({c \in TimedCollectors : s.scrape_errors_total[c] > 0})
    + Cardinality({c \in TimedCollectors : s.last_scrape_timestamp[c] # -1})
    + Cardinality({c \in TimedCollectors : s.last_scrape_success[c] # -1})
    + 3 + collector_samples

GatherInit ==
    /\ mariadb_up = 0
    /\ expositions = <<>>

\* gather(): increment scrapes_total; canary probe; fan out (skipped when the
\* canary failed); serialize; count the samples and set metrics_total.
gather(up, results, collector_samples) ==
    /\ Len(expositions) < MaxGathers
    /\ LET counted == increment_scrapes(scraper)
           collected == IF up THEN dispatch_all(counted, TimedCollectors, results, now)
                        ELSE counted
           emitted == sample_count(collected, collector_samples)
       IN  /\ mariadb_up' = (IF up THEN 1 ELSE 0)
           /\ expositions' = Append(expositions,
                                [metrics_total |-> collected.metrics_total,
                                 scrapes_total |-> collected.scrapes_total,
                                 samples |-> emitted])
           /\ scraper' = update_metrics_count(collected, emitted)
    /\ UNCHANGED <<timers, now>>
    /\ UNCHANGED othersGather

Gather ==
    \E up \in BOOLEAN, results \in [TimedCollectors -> BOOLEAN],
       collector_samples \in 0..MaxCollectorSamples :
        gather(up, results, collector_samples)

(***************************************************************************)
(* Overlapping increment_scrapes calls (collectors/exporter/scraper.rs).   *)
(***************************************************************************)
IncrementerIds == 1..NumIncrementers

\* RwLock::write grants the guard to everyone, holder or not.
lock_always_available(lock) == TRUE

\* RwLock::write grants the guard only when nobody holds one.
lock_available(lock) == lock = 0

IdleIncrementer == [pc |-> "idle", local |-> 0]

IncInit ==
    /\ state_lock = 0
    /\ incrementers = [i \in IncrementerIds |-> IdleIncrementer]
    /\ calls_returned = 0

CallsStarted ==
    calls_returned + Cardinality({i \in IncrementerIds : incrementers[i].pc # "idle"})

\* increment_scrapes is called and reaches self.state.write()
inc_call(i) ==
    /\ incrementers[i].pc = "idle"
    /\ CallsStarted < MaxIncrements
    /\ incrementers' = [incrementers EXCEPT ![i].pc = "waiting"]
    /\ UNCHANGED <<state_lock, calls_returned, timerVars>>
    /\ UNCHANGED othersInc

\* let mut state = match self.state.write() { Ok(guard) => guard, Err(poisoned) => poisoned.into_inner() }
inc_lock(i) ==
    /\ incrementers[i].pc = "waiting"
    /\ lock_available(state_lock)
    /\ state_lock' = i
    /\ incrementers' = [incrementers EXCEPT ![i].pc = "locked"]
    /\ UNCHANGED <<calls_returned, timerVars>>
    /\ UNCHANGED othersInc

\* state.total_scrapes += 1: the load
inc_read(i) ==
    /\ incrementers[i].pc = "locked"
    /\ incrementers' = [incrementers EXCEPT ![i] = [pc |-> "read", local |-> scraper.state.total_scrapes]]
    /\ UNCHANGED <<state_lock, calls_returned, timerVars>>
    /\ UNCHANGED othersInc

\* state.total_scrapes += 1: the store
inc_write(i) ==
    /\ incrementers[i].pc = "read"
    /\ scraper' = [scraper EXCEPT !.state.total_scrapes = incrementers[i].local + 1]
    /\ incrementers' = [incrementers EXCEPT ![i].pc = "written"]
    /\ UNCHANGED <<state_lock, calls_returned, timers, now>>
    /\ UNCHANGED othersInc

\* self.scrapes_total.set(state.total_scrapes)
inc_set(i) ==
    /\ incrementers[i].pc = "written"
    /\ scraper' = [scraper EXCEPT !.scrapes_total = scraper.state.total_scrapes]
    /\ incrementers' = [incrementers EXCEPT ![i].pc = "set"]
    /\ UNCHANGED <<state_lock, calls_returned, timers, now>>
    /\ UNCHANGED othersInc

\* the guard is dropped at the end of the function
inc_return(i) ==
    /\ incrementers[i].pc = "set"
    /\ state_lock' = 0
    /\ incrementers' = [incrementers EXCEPT ![i] = IdleIncrementer]
    /\ calls_returned' = calls_returned + 1
    /\ UNCHANGED timerVars
    /\ UNCHANGED othersInc

IncCall == \E i \in IncrementerIds : inc_call(i)
IncLock == \E i \in IncrementerIds : inc_lock(i)
IncRead == \E i \in IncrementerIds : inc_read(i)
IncWrite == \E i \in IncrementerIds : inc_write(i)
IncSet == \E i \in IncrementerIds : inc_set(i)
IncReturn == \E i \in IncrementerIds : inc_return(i)

(***************************************************************************)
(* VersionCollector::update_version_metrics (collectors/default/version.rs)*)
(***************************************************************************)
FullVersions == {"10.5.12-MariaDB", "10.6.1-MariaDB", "unknown"}
ShortVersions == {"10.5.12", "10.6.1"}
ServerLabels == {"localhost:3306:mysql", "unknown"}
VersionNums == {100512, 100601}

\* A labelled gauge vector is the set of its rows; a row is its label values
\* and its value.
\* MetricVec::reset that keeps the rows.
GaugeVec_reset_keeps_rows(vec) == vec

\* MetricVec::reset: all rows are removed.
GaugeVec_reset(vec) == {}

\* with_label_values(labels).set(value): the row is created if missing.
GaugeVec_set(vec, labels, value) ==
    {row \in vec : row.labels # labels} \cup {[labels |-> labels, value |-> value]}

VersionInit ==
    /\ mariadb_version_info = {}
    /\ mariadb_version_num = {}
    /\ version_updates = <<>>

update_version_metrics(full_version, short_version, server_label, version_num) ==
    /\ Len(version_updates) < MaxVersionUpdates
    /\ mariadb_version_info' =
         GaugeVec_set(GaugeVec_reset(mariadb_version_info), <<full_version, short_version>>, 1)
    /\ mariadb_version_num' =
         GaugeVec_set(GaugeVec_reset(mariadb_version_num), <<server_label>>, version_num)
    /\ version_updates' = Append(version_updates,
                            [info |-> <<full_version, short_version>>, server |-> server_label])
    /\ UNCHANGED othersVersion

UpdateVersionMetrics ==
    \E f \in FullVersions, sh \in ShortVersions, l \in ServerLabels, n \in VersionNums :
        update_version_metrics(f, sh, l, n)

(***************************************************************************)
(* Label rows of the schema and statements collectors                      *)
(* (collectors/schema/mod.rs, collectors/statements/mod.rs).               *)
(***************************************************************************)
\* LIMIT of the table-size query
SchemaLimit == 20

\* LIMIT of the top-digest query
DigestLimit == 5

\* Tables of the server, as {schema, table} label tuples.
Tables == {<<"app", t>> : t \in 1..NumTables}

\* Statement digests of the server, as {digest, schema} label tuples.
Digests == {<<d, "app">> : d \in 1..NumDigests}

\* Results of the table-size query: at most SchemaLimit rows. The largest
\* tables are a run of the tables, which shifts as tables grow.
TableQueryResults ==
    {{<<"app", t>> : t \in first..(first + n - 1)} :
        first \in 1..NumTables, n \in {0, SchemaLimit - 1, SchemaLimit}} \cap SUBSET Tables

\* Results of the top-digest query: at most DigestLimit rows.
DigestQueryResults == {rows \in SUBSET Digests : Cardinality(rows) <= DigestLimit}

CardInit ==
    /\ table_size_bytes = {}
    /\ top_digest_latencies = {}

\* SchemaCollector::collect: every returned row is written with
\* with_label_values(..).set(..); nothing is removed.
schema_collect(rows) ==
    /\ table_size_bytes' = table_size_bytes \cup rows
    /\ UNCHANGED top_digest_latencies
    /\ UNCHANGED othersCard

\* StatementsCollector::collect: every returned top digest is written with
\* with_label_values(..).set(..); nothing is removed.
statements_collect(rows) ==
    /\ top_digest_latencies' = top_digest_latencies \cup rows
    /\ UNCHANGED table_size_bytes
    /\ UNCHANGED othersCard

SchemaCollect == \E rows \in TableQueryResults : schema_collect(rows)
StatementsCollect == \E rows \in DigestQueryResults : statements_collect(rows)

(***************************************************************************)
(* Excluded databases and server version (collectors/util.rs).             *)
(***************************************************************************)
\* Entries of the exclusion list as character sequences: a name, a name with
\* surrounding blanks, and a blank entry.
Entries == { <<"a">>, <<" ", "b", " ">>, <<" ">> }

ExcludedLists == UNION {[1..n -> Entries] : n \in 0..MaxEntries}

\* Versions passed to set_mariadb_version
ServerVersions == {0, 100508, 110400}

RECURSIVE trim_start(_)
trim_start(str) ==
    IF str # <<>> /\ Head(str) = " " THEN trim_start(Tail(str)) ELSE str

RECURSIVE trim_end(_)
trim_end(str) ==
    IF str # <<>> /\ str[Len(str)] = " " THEN trim_end(SubSeq(str, 1, Len(str) - 1)) ELSE str

\* str::trim
trim(str) == trim_end(trim_start(str))

\* Vec::dedup: of every run of equal consecutive elements the first is kept.
RECURSIVE dedup(_)
dedup(list) ==
    IF Len(list) <= 1 THEN list
    ELSE LET rest == dedup(SubSeq(list, 1, Len(list) - 1)) IN
         IF list[Len(list)] = list[Len(list) - 1] THEN rest
         ELSE Append(rest, list[Len(list)])

\* list.into_iter().map(trim).filter(not empty).collect(), then dedup()
cleaned(list) ==
    dedup(SelectSeq([i \in 1..Len(list) |-> trim(list[i])], LAMBDA e : e # <<>>))

\* get_excluded_databases: the stored slice, or the empty slice when unset
get_excluded_databases(cell) == IF cell.set THEN cell.value ELSE <<>>

\* get_mariadb_version: MARIADB_VERSION.get().copied().unwrap_or(0)
get_mariadb_version(cell) == IF cell.set THEN cell.value ELSE 0

GlobalsInit ==
    /\ EXCLUDED = Unset(<<>>)
    /\ MARIADB_VERSION = Unset(0)
    /\ excluded_input = <<>>
    /\ set_attempts = [excluded |-> <<>>, version |-> 0]

set_excluded_databases(list) ==
    /\ EXCLUDED' = OnceCell_set(EXCLUDED, cleaned(list))
    /\ excluded_input' = IF EXCLUDED.set THEN excluded_input ELSE list
    /\ set_attempts' = [set_attempts EXCEPT !.excluded = cleaned(list)]
    /\ UNCHANGED MARIADB_VERSION
    /\ UNCHANGED othersGlobals

set_mariadb_version(version) ==
    /\ MARIADB_VERSION' = OnceCell_set(MARIADB_VERSION, version)
    /\ set_attempts' = [set_attempts EXCEPT !.version = version]
    /\ UNCHANGED <<EXCLUDED, excluded_input>>
    /\ UNCHANGED othersGlobals

SetExcludedDatabases == \E list \in ExcludedLists : set_excluded_databases(list)
SetMariadbVersion == \E version \in ServerVersions : set_mariadb_version(version)

(***************************************************************************)
(* SHOW SLAVE STATUS readers: StatusCollector::collect_replication         *)
(* (default/status.rs), ReplicationCollector::collect (replication/mod.rs) *)
(* and ReplicaStatusCollector::collect (replication/replica_status.rs).    *)
(***************************************************************************)
\* An integer column value: NULL, or a value of a signed or unsigned type.
NullInt == [null |-> TRUE, unsigned |-> FALSE, value |-> 0]
SecondsColumns == {NullInt, [null |-> FALSE, unsigned |-> TRUE, value |-> 7],
                            [null |-> FALSE, unsigned |-> FALSE, value |-> 7]}

\* A text column value: NULL or a string.
NullText == [null |-> TRUE, text |-> ""]
Text(str) == [null |-> FALSE, text |-> str]

\* Slave_IO_Running / Slave_SQL_Running pairs
RunningColumns ==
    { <<Text("Yes"), Text("Yes")>>, <<Text("No"), Text("Yes")>>, <<Text("ON"), Text("ON")>>,
      <<Text("Running"), Text("No")>>, <<NullText, Text("Yes")>>, <<Text("Connecting"), NullText>> }

SlaveRows ==
    {[Seconds_Behind_Master |-> s, Slave_IO_Running |-> r[1], Slave_SQL_Running |-> r[2]] :
        s \in SecondsColumns, r \in RunningColumns}

\* Outcomes of sqlx::query("SHOW SLAVE STATUS").fetch_all: an error, no row, or
\* rows of which only the first is read.
SlaveStatusResults ==
    {[ok |-> FALSE, rows |-> <<>>], [ok |-> TRUE, rows |-> <<>>]}
        \cup {[ok |-> TRUE, rows |-> <<row>>] : row \in SlaveRows}

None == [some |-> FALSE, value |-> 0]
Some(v) == [some |-> TRUE, value |-> v]
unwrap_or(opt, default) == IF opt.some THEN opt.value ELSE default

\* row.try_get::<i64, _>(col).ok(): NULL and a value of an unsigned type both
\* fail to decode as i64.
try_get_i64(col) == IF col.null \/ col.unsigned THEN None ELSE Some(col.value)

\* row.try_get::<Option<u64>, _>(col).ok().flatten()
try_get_opt_u64(col) == IF col.null \/ ~col.unsigned THEN None ELSE Some(col.value)

\* row.try_get::<Option<i64>, _>(col).ok().flatten()
try_get_opt_i64(col) == IF col.null \/ col.unsigned THEN None ELSE Some(col.value)

\* row.try_get::<String, _>(col).ok(): the string, or None for NULL; None is ""
try_get_string(col) == IF col.null THEN [some |-> FALSE, value |-> ""] ELSE Some(col.text)

\* StatusCollector::as_running
as_running(val) == IF val.some /\ val.value \in {"Yes", "ON", "Running"} THEN 1 ELSE 0

\* i64::from(io_running.as_deref() == Some("Yes"))
is_yes(val) == IF val.some /\ val.value = "Yes" THEN 1 ELSE 0

SlaveStatusReaders == {"status", "replication", "replica_status"}

ReplInit ==
    slave_gauges = [c \in SlaveStatusReaders |->
                      [queried |-> [ok |-> FALSE, rows |-> <<>>],
                       seconds_behind |-> 0, io_running |-> 0, sql_running |-> 0]]

\* StatusCollector::collect_replication
collect_replication(result) ==
    /\ slave_gauges' = [slave_gauges EXCEPT !["status"] =
         IF ~result.ok THEN [@ EXCEPT !.queried = result]
         ELSE IF result.rows = <<>>
         THEN [queried |-> result, seconds_behind |-> 0, io_running |-> 0, sql_running |-> 0]
         ELSE LET row == result.rows[1] IN
              [queried |-> result,
               seconds_behind |-> unwrap_or(try_get_i64(row.Seconds_Behind_Master), 0),
               io_running |-> as_running(try_get_string(row.Slave_IO_Running)),
               sql_running |-> as_running(try_get_string(row.Slave_SQL_Running))]]
    /\ UNCHANGED othersRepl

\* ReplicationCollector::collect, the replica details
replication_collect(result) ==
    /\ slave_gauges' = [slave_gauges EXCEPT !["replication"] =
         IF ~result.ok \/ result.rows = <<>> THEN [@ EXCEPT !.queried = result]
         ELSE LET row == result.rows[1] IN
              [queried |-> result,
               seconds_behind |-> unwrap_or(try_get_i64(row.Seconds_Behind_Master), 0),
               io_running |-> is_yes(try_get_string(row.Slave_IO_Running)),
               sql_running |-> is_yes(try_get_string(row.Slave_SQL_Running))]]
    /\ UNCHANGED othersRepl

\* ReplicaStatusCollector::collect, the SHOW SLAVE STATUS part
replica_status_collect(result) ==
    /\ slave_gauges' = [slave_gauges EXCEPT !["replica_status"] =
         IF ~result.ok \/ result.rows = <<>> THEN [@ EXCEPT !.queried = result]
         ELSE LET row == result.rows[1]
                  unsigned == try_get_opt_u64(row.Seconds_Behind_Master)
                  seconds == IF unsigned.some THEN unsigned
                             ELSE try_get_opt_i64(row.Seconds_Behind_Master)
              IN
              [queried |-> result,
               seconds_behind |-> unwrap_or(seconds, -1),
               io_running |-> is_yes(try_get_string(row.Slave_IO_Running)),
               sql_running |-> is_yes(try_get_string(row.Slave_SQL_Running))]]
    /\ UNCHANGED othersRepl

CollectReplication == \E result \in SlaveStatusResults : collect_replication(result)
ReplicationCollect == \E result \in SlaveStatusResults : replication_collect(result)
ReplicaStatusCollect == \E result \in SlaveStatusResults : replica_status_collect(result)

(***************************************************************************)
(* normalize_mariadb_version (collectors/util.rs) and                      *)
(* VersionCollector::normalize_version (collectors/default/version.rs).    *)
(***************************************************************************)
\* Decimal digits of i64::MAX
I64Digits == 19

DigitChars == {"0", "1", "2", "3", "4", "5", "6", "7", "8", "9"}
VersionChars == {"0", "1", ".", "M"}

\* Version strings: every short string, and strings with a run of digits too
\* long for an i64.
LongDigits == [i \in 1..(I64Digits + 1) |-> "9"]
VersionStrings ==
    UNION {[1..n -> VersionChars] : n \in 0..MaxVersionLen}
        \cup {LongDigits, LongDigits \o <<".", "1">>, <<"1", ".">> \o LongDigits}

digit_value(c) ==
    CASE c = "0" -> 0 [] c = "1" -> 1 [] c = "2" -> 2 [] c = "3" -> 3 [] c = "4" -> 4
      [] c = "5" -> 5 [] c = "6" -> 6 [] c = "7" -> 7 [] c = "8" -> 8 [] c = "9" -> 9

\* \d+ at the start of str: the longest run of digits
RECURSIVE digit_run(_)
digit_run(str) ==
    IF str # <<>> /\ Head(str) \in DigitChars THEN <<Head(str)>> \o digit_run(Tail(str))
    ELSE <<>>

skip_chars(str, n) == SubSeq(str, n + 1, Len(str))

\* (?:\.(\d+))? at the start of str: the digits captured, <<>> when the group
\* does not take part in the match
optional_part(str) ==
    IF Len(str) >= 2 /\ str[1] = "." /\ str[2] \in DigitChars THEN digit_run(Tail(str))
    ELSE <<>>

\* re.captures(version_string) for ^(\d+)(?:\.(\d+))?(?:\.(\d+))?
captures(str) ==
    LET major == digit_run(str)
        rest1 == skip_chars(str, Len(major))
        minor == optional_part(rest1)
        rest2 == IF minor = <<>> THEN rest1 ELSE skip_chars(rest1, 1 + Len(minor))
        patch == IF minor = <<>> THEN <<>> ELSE optional_part(rest2)
    IN  [matched |-> major # <<>>, major |-> major, minor |-> minor, patch |-> patch]

RECURSIVE strip_zeros(_)
strip_zeros(digits) ==
    IF Len(digits) > 1 /\ Head(digits) = "0" THEN strip_zeros(Tail(digits)) ELSE digits

RECURSIVE decimal_value(_)
decimal_value(digits) ==
    IF digits = <<>> THEN 0
    ELSE 10 * decimal_value(SubSeq(digits, 1, Len(digits) - 1)) + digit_value(digits[Len(digits)])

\* caps.get(k).map_or(0, |m| m.as_str().parse::<i64>().unwrap_or(0)): a group
\* that did not match gives 0, and so does a number with more digits than an
\* i64 can hold.
parse_or_zero(digits) ==
    IF digits = <<>> \/ Len(strip_zeros(digits)) > I64Digits THEN 0
    ELSE decimal_value(strip_zeros(digits))

\* format!("{n}") of a non-negative integer
RECURSIVE to_decimal(_)
to_decimal(n) ==
    IF n < 10 THEN <<CASE n = 0 -> "0" [] n = 1 -> "1" [] n = 2 -> "2" [] n = 3 -> "3"
                       [] n = 4 -> "4" [] n = 5 -> "5" [] n = 6 -> "6" [] n = 7 -> "7"
                       [] n = 8 -> "8" [] n = 9 -> "9">>
    ELSE to_decimal(n \div 10) \o to_decimal(n % 10)

ZeroVersion == <<"0", ".", "0", ".", "0">>

\* normalize_mariadb_version with the major part weighted 1000.
normalize_mariadb_version_weight_1000(str) ==
    LET caps == captures(str) IN
    IF caps.matched
    THEN LET major == parse_or_zero(caps.major)
             minor == parse_or_zero(caps.minor)
             patch == parse_or_zero(caps.patch)
         IN  [normalized |-> to_decimal(major) \o <<".">> \o to_decimal(minor)
                                \o <<".">> \o to_decimal(patch),
              num |-> major * 1000 + minor * 100 + patch]
    ELSE [normalized |-> ZeroVersion, num |-> 0]

normalize_mariadb_version(str) ==
    LET caps == captures(str) IN
    IF caps.matched
    THEN LET major == parse_or_zero(caps.major)
             minor == parse_or_zero(caps.minor)
             patch == parse_or_zero(caps.patch)
         IN  [normalized |-> to_decimal(major) \o <<".">> \o to_decimal(minor)
                                \o <<".">> \o to_decimal(patch),
              num |-> major * 10000 + minor * 100 + patch]
    ELSE [normalized |-> ZeroVersion, num |-> 0]

\* VersionCollector::normalize_version: Err for ("0.0.0", 0)
normalize_version(str) ==
    LET r == normalize_mariadb_version(str) IN
    IF r.num = 0 /\ r.normalized = ZeroVersion THEN "Err" ELSE "Ok"

NormInit ==
    /\ version_string = <<>>
    /\ normalized = [done |-> FALSE, result |-> [normalized |-> <<>>, num |-> 0], outcome |-> "none"]

NormInputs ==
    /\ version_string \in VersionStrings
    /\ normalized = [done |-> FALSE, result |-> [normalized |-> <<>>, num |-> 0], outcome |-> "none"]

\* The version collector normalizes the version string it fetched.
NormalizeVersion ==
    /\ ~normalized.done
    /\ normalized' = [done |-> TRUE, result |-> normalize_mariadb_version(version_string),
                      outcome |-> normalize_version(version_string)]
    /\ UNCHANGED version_string
    /\ UNCHANGED othersNorm

(***************************************************************************)
(* QueryResponseTimeCollector::collect                                     *)
(* (collectors/query_response_time/collector.rs).                          *)
(***************************************************************************)
\* Decimal places the model keeps of an f64 number of seconds
Decimals == 2

\* str::parse::<f64> of a plain decimal numeral ("30", "0.05", "5.", ".5"),
\* in units of 10^-Decimals seconds; anything else in the inputs is text that
\* does not parse.
parse_f64(str) ==
    LET int == digit_run(str)
        rest == skip_chars(str, Len(int))
        dot == rest # <<>> /\ Head(rest) = "."
        frac == IF dot THEN digit_run(Tail(rest)) ELSE <<>>
        used == Len(int) + (IF dot THEN 1 + Len(frac) ELSE 0)
        scaled == SubSeq(frac \o [i \in 1..Decimals |-> "0"], 1, Decimals)
    IN  IF used = Len(str) /\ (int # <<>> \/ frac # <<>>)
        THEN Some(decimal_value(int \o scaled))
        ELSE None

\* The four le labels
Le_0_1 == <<"0", ".", "1">>
Le_1_0 == <<"1", ".", "0">>
Le_10_0 == <<"1", "0", ".", "0">>
Le_Inf == <<"+", "I", "n", "f">>

\* The literals 0.1, 1.0 and 10.0 as f64
secs_0_1 == parse_f64(Le_0_1).value
secs_1_0 == parse_f64(Le_1_0).value
secs_10_0 == parse_f64(Le_10_0).value

\* if time_secs <= 0.1 .. else if <= 1.0 .. else if <= 10.0 .. else, with the
\* upper bound of a range left out of it
range_of_exclusive(time_secs) ==
    CASE time_secs < secs_0_1 -> Le_0_1
      [] time_secs >= secs_0_1 /\ time_secs < secs_1_0 -> Le_1_0
      [] time_secs >= secs_1_0 /\ time_secs < secs_10_0 -> Le_10_0
      [] OTHER -> Le_Inf

\* if time_secs <= 0.1 .. else if <= 1.0 .. else if <= 10.0 .. else: the
\* non-overlapping range a row is placed into, named by its upper bound
range_of(time_secs) ==
    IF time_secs <= secs_0_1 THEN Le_0_1
    ELSE IF time_secs <= secs_1_0 THEN Le_1_0
    ELSE IF time_secs <= secs_10_0 THEN Le_10_0
    ELSE Le_Inf

ZeroTotals ==
    [cumulative_0_1 |-> 0, cumulative_1_0 |-> 0, cumulative_10_0 |-> 0, over_10s |-> 0,
     total_count |-> 0, total_sum |-> 0]

\* for (time_str, count) in &rows { .. }: the loop of collect
RECURSIVE aggregate(_, _)
aggregate(rows, acc) ==
    IF rows = <<>> THEN acc
    ELSE LET row == Head(rows)
             time_secs == parse_f64(trim(row.TIME))
         IN  IF ~time_secs.some \/ row.COUNT = 0 THEN aggregate(Tail(rows), acc)
             ELSE LET range == range_of(time_secs.value)
                      counted == [acc EXCEPT !.total_count = @ + row.COUNT,
                                             !.total_sum = @ + time_secs.value * row.COUNT]
                  IN  aggregate(Tail(rows),
                        CASE range = Le_0_1 -> [counted EXCEPT !.cumulative_0_1 = @ + row.COUNT]
                          [] range = Le_1_0 -> [counted EXCEPT !.cumulative_1_0 = @ + row.COUNT]
                          [] range = Le_10_0 -> [counted EXCEPT !.cumulative_10_0 = @ + row.COUNT]
                          [] OTHER -> [counted EXCEPT !.over_10s = @ + row.COUNT])

\* A reset that leaves the counter as it is.
IntCounter_reset_keeps_value(counter) == counter

\* IntCounter::reset, Counter::reset
IntCounter_reset(counter) == 0

\* with_label_values(&[le]).inc_by(v): the child is created at 0 if missing
IntCounterVec_inc_by(vec, le, v) ==
    LET old == {row \in vec : row.labels = le}
        before == IF old = {} THEN 0 ELSE (CHOOSE row \in old : TRUE).value
    IN  (vec \ old) \cup {[labels |-> le, value |-> before + v]}

\* Rows the plugin table may hold: short and long response times, the upper
\* bounds 0.1 and 1.0 of a range, left-padded TIME values, a zero count and
\* the overflow row.
CandidateRows ==
    << [TIME |-> <<"0", ".", "0", "1">>, COUNT |-> 10],
       [TIME |-> <<"0", ".", "5">>, COUNT |-> 5],
       [TIME |-> <<"5", ".", "0">>, COUNT |-> 2],
       [TIME |-> <<"3", "0">>, COUNT |-> 1],
       [TIME |-> <<"0", ".", "0", "5">>, COUNT |-> 3],
       [TIME |-> <<"T", "O", "O", " ", "L", "O", "N", "G">>, COUNT |-> 4],
       [TIME |-> <<" ", " ", "0", ".", "1", "0">>, COUNT |-> 1],
       [TIME |-> <<" ", "1", ".", "0", "0">>, COUNT |-> 1],
       [TIME |-> <<"1", ".", "1", "0">>, COUNT |-> 0] >>

\* The rows of CandidateRows at the positions in present, in table order
RECURSIVE table_of(_, _)
table_of(present, from) ==
    IF from > Len(CandidateRows) THEN <<>>
    ELSE (IF from \in present THEN <<CandidateRows[from]>> ELSE <<>>) \o table_of(present, from + 1)

positions(table) == {i \in 1..Len(CandidateRows) : \E j \in 1..Len(table) : table[j] = CandidateRows[i]}

QrtInit ==
    /\ QUERY_RESPONSE_TIME = <<>>
    /\ response_time_bucket = {}
    /\ response_time_count = 0
    /\ response_time_sum = 0
    /\ rows_read = [some |-> FALSE, value |-> <<>>, republished |-> FALSE]

\* The server answers one more kind of query: the plugin table gains a row.
server_record(i) ==
    /\ Len(QUERY_RESPONSE_TIME) < MaxRows
    /\ LET present == positions(QUERY_RESPONSE_TIME)
       IN  /\ i \notin present
           /\ QUERY_RESPONSE_TIME' = table_of(present \cup {i}, 1)
    /\ UNCHANGED <<response_time_bucket, response_time_count, response_time_sum, rows_read>>
    /\ UNCHANGED othersQrt

\* collect: has_table is the answer of the information_schema.tables query,
\* fetch_ok whether SELECT TIME, COUNT succeeded (a failure reads as no rows).
qrt_collect(has_table, fetch_ok) ==
    /\ IF ~has_table
       THEN UNCHANGED <<response_time_bucket, response_time_count, response_time_sum, rows_read>>
       ELSE LET rows == IF fetch_ok THEN QUERY_RESPONSE_TIME ELSE <<>>
                acc == aggregate(rows, ZeroTotals)
                cumulative_0_1 == acc.cumulative_0_1
                cumulative_1_0 == acc.cumulative_1_0 + cumulative_0_1
                cumulative_10_0 == acc.cumulative_10_0 + cumulative_1_0
                cumulative_inf == cumulative_10_0 + acc.over_10s
                b0 == GaugeVec_reset(response_time_bucket)
                b1 == IntCounterVec_inc_by(b0, Le_0_1, cumulative_0_1)
                b2 == IntCounterVec_inc_by(b1, Le_1_0, cumulative_1_0)
                b3 == IntCounterVec_inc_by(b2, Le_10_0, cumulative_10_0)
            IN  /\ response_time_bucket' = IntCounterVec_inc_by(b3, Le_Inf, cumulative_inf)
                /\ response_time_count' = IntCounter_reset(response_time_count) + acc.total_count
                /\ response_time_sum' = IntCounter_reset(response_time_sum) + acc.total_sum
                /\ rows_read' = [some |-> TRUE, value |-> rows,
                                 republished |-> rows_read.some /\ rows_read.value # rows]
    /\ UNCHANGED QUERY_RESPONSE_TIME
    /\ UNCHANGED othersQrt

ServerRecord == \E i \in 1..Len(CandidateRows) : server_record(i)

QrtCollect == \E has_table \in BOOLEAN, fetch_ok \in BOOLEAN : qrt_collect(has_table, fetch_ok)

(***************************************************************************)
(* StatusParser (collectors/innodb/status.rs): the scan of SHOW ENGINE     *)
(* INNODB STATUS.  A string is a sequence of characters, a text the        *)
(* sequence of its lines.                                                  *)
(***************************************************************************)
\* str::starts_with
starts_with(str, pat) == Len(str) >= Len(pat) /\ SubSeq(str, 1, Len(pat)) = pat

\* str::find: the position of the first occurrence of pat, 0 if there is none
find(str, pat) ==
    LET at == {i \in 1..(Len(str) - Len(pat) + 1) : SubSeq(str, i, i + Len(pat) - 1) = pat}
    IN  IF at = {} THEN 0 ELSE CHOOSE i \in at : \A j \in at : i <= j

\* str::contains
contains(str, pat) == find(str, pat) # 0

\* str::split(pat): the pieces between the occurrences of pat
RECURSIVE split(_, _)
split(str, pat) ==
    LET i == find(str, pat)
    IN  IF i = 0 THEN <<str>>
        ELSE <<SubSeq(str, 1, i - 1)>> \o split(skip_chars(str, i - 1 + Len(pat)), pat)

\* str::split_whitespace: the non-empty pieces between blanks
split_whitespace(str) == SelectSeq(split(str, <<" ">>), LAMBDA piece : piece # <<>>)

\* Iterator::nth(n - 1), Vec::get(n - 1), first(), next()
nth(list, n) == IF n <= Len(list) THEN Some(list[n]) ELSE None

\* Iterator::last
last(list) == nth(list, Len(list))

\* str::parse::<i64>: an optional sign and decimal digits that fit an i64
parse_i64(str) ==
    LET signed == str # <<>> /\ Head(str) \in {"+", "-"}
        digits == IF signed THEN Tail(str) ELSE str
    IN  IF digits = <<>> \/ digit_run(digits) # digits \/ Len(strip_zeros(digits)) > I64Digits
        THEN None
        ELSE Some(IF signed /\ Head(str) = "-" THEN 0 - decimal_value(digits)
                  ELSE decimal_value(digits))

\* The text of scenario S2
StatusS2 ==
    << <<"L", "o", "g", " ", "s", "e", "q", "u", "e", "n", "c", "e", " ", "n", "u", "m", "b", "e", "r", " ", " ", " ", " ", " ", " ", " ", " ", " ", " ", "1", "2", "3", "4", "5", "6", "7", "8", "9">>,
       <<"L", "o", "g", " ", "f", "l", "u", "s", "h", "e", "d", " ", "u", "p", " ", "t", "o", " ", " ", " ", " ", " ", " ", " ", " ", " ", " ", " ", " ", "1", "2", "3", "4", "5", "6", "0", "0", "0">>,
       <<"L", "a", "s", "t", " ", "c", "h", "e", "c", "k", "p", "o", "i", "n", "t", " ", "a", "t", " ", " ", " ", " ", " ", " ", " ", " ", " ", " ", " ", "1", "2", "3", "4", "5", "0", "0", "0", "0">>,
       <<"-", "-", "-", "T", "R", "A", "N", "S", "A", "C", "T", "I", "O", "N", " ", "1", ",", " ", "A", "C", "T", "I", "V", "E", " ", "5", " ", "s", "e", "c">>,
       <<"-", "-", "-", "T", "R", "A", "N", "S", "A", "C", "T", "I", "O", "N", " ", "2", ",", " ", "A", "C", "T", "I", "V", "E", " ", "1", " ", "s", "e", "c">>,
       <<"M", "u", "t", "e", "x", " ", "s", "p", "i", "n", " ", "w", "a", "i", "t", "s", " ", "0", ",", " ", "r", "o", "u", "n", "d", "s", " ", "0", ",", " ", "O", "S", " ", "w", "a", "i", "t", "s", " ", "1", "2", "3">>,
       <<"R", "W", "-", "s", "h", "a", "r", "e", "d", " ", "s", "p", "i", "n", "s", " ", "0", ",", " ", "r", "o", "u", "n", "d", "s", " ", "0", ",", " ", "O", "S", " ", "w", "a", "i", "t", "s", " ", "4", "5", "6">>,
       <<"1", "2", "3", "4", "5", "6", " ", "h", "a", "s", "h", " ", "s", "e", "a", "r", "c", "h", "e", "s", "/", "s", ",", " ", "1", "2", "3", "4", "5", " ", "n", "o", "n", "-", "h", "a", "s", "h", " ", "s", "e", "a", "r", "c", "h", "e", "s", "/", "s">> >>

\* The text of test_parse_lsn_metrics
StatusLsn ==
    << <<>>,
       <<"=", "=", "=", "=", "=", "=", "=", "=", "=", "=", "=", "=", "=", "=", "=", "=", "=", "=", "=", "=", "=", "=", "=", "=", "=", "=", "=", "=", "=", "=", "=", "=", "=", "=", "=", "=", "=">>,
       <<"2", "0", "2", "4", "-", "1", "2", "-", "0", "2", " ", "0", "6", ":", "3", "0", ":", "0", "0", " ", "0", "x", "7", "f", "8", "b", "8", "c", "0", "0", "0", "7", "0", "0", " ", "I", "N", "N", "O", "D", "B", " ", "M", "O", "N", "I", "T", "O", "R", " ", "O", "U", "T", "P", "U", "T">>,
       <<"=", "=", "=", "=", "=", "=", "=", "=", "=", "=", "=", "=", "=", "=", "=", "=", "=", "=", "=", "=", "=", "=", "=", "=", "=", "=", "=", "=", "=", "=", "=", "=", "=", "=", "=", "=", "=">>,
       <<"L", "o", "g", " ", "s", "e", "q", "u", "e", "n", "c", "e", " ", "n", "u", "m", "b", "e", "r", " ", " ", " ", " ", " ", " ", " ", " ", " ", " ", "1", "2", "3", "4", "5", "6", "7", "8", "9">>,
       <<"L", "o", "g", " ", "f", "l", "u", "s", "h", "e", "d", " ", "u", "p", " ", "t", "o", " ", " ", " ", " ", " ", " ", " ", " ", " ", " ", " ", " ", "1", "2", "3", "4", "5", "6", "0", "0", "0">>,
       <<"P", "a", "g", "e", "s", " ", "f", "l", "u", "s", "h", "e", "d", " ", "u", "p", " ", "t", "o", " ", " ", " ", " ", " ", " ", " ", " ", " ", " ", "1", "2", "3", "4", "5", "5", "0", "0", "0">>,
       <<"L", "a", "s", "t", " ", "c", "h", "e", "c", "k", "p", "o", "i", "n", "t", " ", "a", "t", " ", " ", " ", " ", " ", " ", " ", " ", " ", " ", " ", "1", "2", "3", "4", "5", "0", "0", "0", "0">>,
       <<" ", " ", " ", " ", " ", " ", " ", " ">> >>

\* The text of test_parse_active_transactions
StatusTransactions ==
    << <<>>,
       <<"-", "-", "-", "T", "R", "A", "N", "S", "A", "C", "T", "I", "O", "N", " ", "4", "2", "1", "2", "3", "4", "5", "6", "7", "8", "9", "0", ",", " ", "A", "C", "T", "I", "V", "E", " ", "5", " ", "s", "e", "c", " ", "s", "t", "a", "r", "t", "i", "n", "g", " ", "i", "n", "d", "e", "x", " ", "r", "e", "a", "d">>,
       <<"-", "-", "-", "T", "R", "A", "N", "S", "A", "C", "T", "I", "O", "N", " ", "4", "2", "1", "2", "3", "4", "5", "6", "7", "8", "9", "1", ",", " ", "A", "C", "T", "I", "V", "E", " ", "1", "0", " ", "s", "e", "c">>,
       <<"-", "-", "-", "T", "R", "A", "N", "S", "A", "C", "T", "I", "O", "N", " ", "4", "2", "1", "2", "3", "4", "5", "6", "7", "8", "9", "2", ",", " ", "A", "C", "T", "I", "V", "E", " ", "2", " ", "s", "e", "c", " ", "i", "n", "s", "e", "r", "t", "i", "n", "g">>,
       <<" ", " ", " ", " ", " ", " ", " ", " ">> >>

\* The text of test_parse_semaphore_waits
StatusSemaphores ==
    << <<>>,
       <<"M", "u", "t", "e", "x", " ", "s", "p", "i", "n", " ", "w", "a", "i", "t", "s", " ", "1", "2", "3", "4", "5", ",", " ", "r", "o", "u", "n", "d", "s", " ", "6", "7", "8", "9", "0", ",", " ", "O", "S", " ", "w", "a", "i", "t", "s", " ", "1", "2", "3">>,
       <<"R", "W", "-", "s", "h", "a", "r", "e", "d", " ", "s", "p", "i", "n", "s", " ", "5", "4", "3", "2", "1", ",", " ", "r", "o", "u", "n", "d", "s", " ", "9", "8", "7", "6", "5", ",", " ", "O", "S", " ", "w", "a", "i", "t", "s", " ", "4", "5", "6">>,
       <<" ", " ", " ", " ", " ", " ", " ", " ">> >>

\* The text of test_parse_adaptive_hash
StatusAdaptiveHash ==
    << <<>>,
       <<"1", "2", "3", "4", "5", "6", " ", "h", "a", "s", "h", " ", "s", "e", "a", "r", "c", "h", "e", "s", "/", "s", ",", " ", "1", "2", "3", "4", "5", " ", "n", "o", "n", "-", "h", "a", "s", "h", " ", "s", "e", "a", "r", "c", "h", "e", "s", "/", "s">>,
       <<" ", " ", " ", " ", " ", " ", " ", " ">> >>

\* Lines as a server prints them: rates with two decimal places, a
\* transaction that is not active, a later log sequence number.
StatusServer ==
    << <<"-", "-", "-", "T", "R", "A", "N", "S", "A", "C", "T", "I", "O", "N", " ", "0", ",", " ", "n", "o", "t", " ", "s", "t", "a", "r", "t", "e", "d">>,
       <<"-", "-", "-", "T", "R", "A", "N", "S", "A", "C", "T", "I", "O", "N", " ", "7", ",", " ", "A", "C", "T", "I", "V", "E", " ", "0", " ", "s", "e", "c">>,
       <<"R", "W", "-", "e", "x", "c", "l", " ", "s", "p", "i", "n", "s", " ", "0", ",", " ", "r", "o", "u", "n", "d", "s", " ", "0", ",", " ", "O", "S", " ", "w", "a", "i", "t", "s", " ", "9">>,
       <<"0", ".", "0", "0", " ", "h", "a", "s", "h", " ", "s", "e", "a", "r", "c", "h", "e", "s", "/", "s", ",", " ", "0", ".", "0", "0", " ", "n", "o", "n", "-", "h", "a", "s", "h", " ", "s", "e", "a", "r", "c", "h", "e", "s", "/", "s">>,
       <<"L", "o", "g", " ", "s", "e", "q", "u", "e", "n", "c", "e", " ", "n", "u", "m", "b", "e", "r", " ", "4", "5">>,
       <<"L", "o", "g", " ", "s", "e", "q", "u", "e", "n", "c", "e", " ", "n", "u", "m", "b", "e", "r", " ", "4", "7">>,
       <<"L", "o", "g", " ", "f", "l", "u", "s", "h", "e", "d", " ", "u", "p", " ", "t", "o", " ", " ", " ", "4", "6">>,
       <<"L", "a", "s", "t", " ", "c", "h", "e", "c", "k", "p", "o", "i", "n", "t", " ", "a", "t", " ", " ", "4", "0">> >>

\* A text with a log sequence number and nothing else
StatusLogOnly == << <<"L", "o", "g", " ", "s", "e", "q", "u", "e", "n", "c", "e", " ", "n", "u", "m", "b", "e", "r", " ", "5", "0">> >>

\* test_parse_empty_status: "" has no lines
StatusTexts ==
    {<<>>, StatusS2, StatusLsn, StatusTransactions, StatusSemaphores, StatusAdaptiveHash,
     StatusServer, StatusLogOnly}

\* StatusParser::new: every gauge is 0
NewStatusParser ==
    [lsn_current |-> 0, lsn_flushed |-> 0, lsn_checkpoint |-> 0, checkpoint_age |-> 0,
     trx_active_transactions |-> 0, semaphore_waits |-> 0, semaphore_wait_time_ms |-> 0,
     adaptive_hash_searches |-> 0, adaptive_hash_searches_btree |-> 0]

\* self.<gauge>.set(value), in the scan state st
gauge_set(st, gauge, value) ==
    [st EXCEPT !.gauges = [@ EXCEPT ![gauge] = value], !.written = @ \cup {gauge}]

\* One pass of the loop body of parse over a line, in the scan state st
scan_line(st, raw) ==
    LET line == trim(raw)
        value == last(split_whitespace(line))
        lsn == IF value.some THEN parse_i64(value.value) ELSE None
        waits_str == nth(split(line, <<"O", "S", " ", "w", "a", "i", "t", "s">>), 2)
        num_str == IF waits_str.some THEN nth(split_whitespace(waits_str.value), 1) ELSE None
        waits == IF num_str.some THEN parse_i64(num_str.value) ELSE None
        parts == split(line, <<",">>)
        hash_value == nth(split_whitespace(parts[1]), 1)
        hash_searches == IF hash_value.some THEN parse_i64(hash_value.value) ELSE None
        btree_part == nth(parts, 2)
        btree_value == IF btree_part.some THEN nth(split_whitespace(btree_part.value), 1) ELSE None
        btree_searches == IF btree_value.some THEN parse_i64(btree_value.value) ELSE None
    IN  IF starts_with(line, <<"L", "o", "g", " ", "s", "e", "q", "u", "e", "n", "c", "e", " ", "n", "u", "m", "b", "e", "r">>) /\ lsn.some
        THEN [gauge_set(st, "lsn_current", lsn.value) EXCEPT !.lsn_current = lsn]
        ELSE IF starts_with(line, <<"L", "o", "g", " ", "f", "l", "u", "s", "h", "e", "d", " ", "u", "p", " ", "t", "o">>) /\ lsn.some
        THEN gauge_set(st, "lsn_flushed", lsn.value)
        ELSE IF starts_with(line, <<"L", "a", "s", "t", " ", "c", "h", "e", "c", "k", "p", "o", "i", "n", "t", " ", "a", "t">>) /\ lsn.some
        THEN [gauge_set(st, "lsn_checkpoint", lsn.value) EXCEPT !.lsn_checkpoint = lsn]
        ELSE IF starts_with(line, <<"-", "-", "-", "T", "R", "A", "N", "S", "A", "C", "T", "I", "O", "N">>) /\ contains(line, <<"A", "C", "T", "I", "V", "E">>)
        THEN [st EXCEPT !.active_trx = @ + 1]
        ELSE IF contains(line, <<"O", "S", " ", "w", "a", "i", "t", "s">>) /\ waits.some
        THEN gauge_set(st, "semaphore_waits", waits.value)
        ELSE IF contains(line, <<"h", "a", "s", "h", " ", "s", "e", "a", "r", "c", "h", "e", "s", "/", "s">>)
        THEN LET st1 == IF hash_searches.some
                        THEN gauge_set(st, "adaptive_hash_searches", hash_searches.value)
                        ELSE st
             IN  IF btree_searches.some
                 THEN gauge_set(st1, "adaptive_hash_searches_btree", btree_searches.value)
                 ELSE st1
        ELSE st

\* for line in status.lines() { .. }
RECURSIVE scan(_, _)
scan(st, text) == IF text = <<>> THEN st ELSE scan(scan_line(st, Head(text)), Tail(text))

\* parse writing checkpoint_age in every call, a missing LSN counted as 0
parse_age_always(gauges, text) ==
    LET st == scan([gauges |-> gauges, written |-> {}, lsn_current |-> None,
                    lsn_checkpoint |-> None, active_trx |-> 0], text)
        aged == gauge_set(st, "checkpoint_age",
                          unwrap_or(st.lsn_current, 0) - unwrap_or(st.lsn_checkpoint, 0))
    IN  gauge_set(aged, "trx_active_transactions", aged.active_trx)

\* StatusParser::parse: the gauges after the call and the gauges it has set
parse(gauges, text) ==
    LET st == scan([gauges |-> gauges, written |-> {}, lsn_current |-> None,
                    lsn_checkpoint |-> None, active_trx |-> 0], text)
        aged == IF st.lsn_current.some /\ st.lsn_checkpoint.some
                THEN gauge_set(st, "checkpoint_age", st.lsn_current.value - st.lsn_checkpoint.value)
                ELSE st
    IN  gauge_set(aged, "trx_active_transactions", aged.active_trx)

InnodbInit ==
    /\ innodb_status = <<>>
    /\ status_parser = NewStatusParser
    /\ parsed_text = [some |-> FALSE, value |-> <<>>]
    /\ written = {}
    /\ parse_calls = 0

\* The server's status text changes between scrapes.
server_status(text) ==
    /\ innodb_status # text
    /\ innodb_status' = text
    /\ UNCHANGED <<status_parser, parsed_text, written, parse_calls>>
    /\ UNCHANGED othersInnodb

\* collect: a failed SHOW ENGINE INNODB STATUS returns the error before
\* parse is called.
innodb_collect(query_ok) ==
    /\ parse_calls < MaxParses
    /\ IF query_ok
       THEN LET st == parse(status_parser, innodb_status)
            IN  /\ status_parser' = st.gauges
                /\ written' = st.written
                /\ parsed_text' = Some(innodb_status)
                /\ parse_calls' = parse_calls + 1
       ELSE UNCHANGED <<status_parser, parsed_text, written, parse_calls>>
    /\ UNCHANGED innodb_status
    /\ UNCHANGED othersInnodb

ServerStatus == \E text \in StatusTexts : server_status(text)

InnodbCollect == \E query_ok \in BOOLEAN : innodb_collect(query_ok)

(***************************************************************************)
(* parse_master_server_id (collectors/replication/replica_status.rs).      *)
(* 64-bit values are decimal numerals: a sequence of digits without        *)
(* leading zeros, with a leading "-" when negative.                        *)
(***************************************************************************)
\* i64::MAX and the magnitude of i64::MIN
I64Max == <<"9", "2", "2", "3", "3", "7", "2", "0", "3", "6", "8", "5", "4", "7", "7", "5", "8", "0", "7">>
I64MinMagnitude == <<"9", "2", "2", "3", "3", "7", "2", "0", "3", "6", "8", "5", "4", "7", "7", "5", "8", "0", "8">>
U64Max == <<"1", "8", "4", "4", "6", "7", "4", "4", "0", "7", "3", "7", "0", "9", "5", "5", "1", "6", "1", "5">>

\* a <= b for digit sequences of the same length
RECURSIVE digits_le(_, _)
digits_le(a, b) ==
    IF a = <<>> THEN TRUE
    ELSE IF digit_value(Head(a)) # digit_value(Head(b))
    THEN digit_value(Head(a)) < digit_value(Head(b))
    ELSE digits_le(Tail(a), Tail(b))

\* digits, without leading zeros, denote a number that is at most limit
at_most(digits, limit) ==
    Len(digits) < Len(limit) \/ (Len(digits) = Len(limit) /\ digits_le(digits, limit))

\* i64::try_from(v: u64).ok()
i64_try_from(v) == IF at_most(v, I64Max) THEN Some(v) ELSE [some |-> FALSE, value |-> <<>>]

\* value.parse::<i64>().ok(): an optional sign and digits, within the range
\* of an i64; the result is the numeral of the value
parse_i64_numeral(str) ==
    LET signed == str # <<>> /\ Head(str) \in {"+", "-"}
        negative == signed /\ Head(str) = "-"
        digits == IF signed THEN Tail(str) ELSE str
        magnitude == strip_zeros(digits)
    IN  IF digits = <<>> \/ digit_run(digits) # digits
           \/ ~at_most(magnitude, IF negative THEN I64MinMagnitude ELSE I64Max)
        THEN [some |-> FALSE, value |-> <<>>]
        ELSE Some(IF negative /\ magnitude # <<"0">> THEN <<"-">> \o magnitude ELSE magnitude)

Absent == [some |-> FALSE, value |-> <<>>]

\* Option<u64> readings of the column
UnsignedReadings == {Absent, Some(<<"0">>), Some(<<"1", "2", "3">>), Some(I64Max), Some(I64MinMagnitude), Some(U64Max)}

\* Option<i64> readings of the column
SignedReadings == {Absent, Some(<<"0">>), Some(<<"4", "5">>), Some(<<"-", "1">>)}

\* Option<String> readings of the column
TextReadings ==
    {Absent, Some(<<"7">>), Some(<<"0", "0", "7">>), Some(<<"-", "7">>), Some(<<>>), Some(<<" ", "7">>), Some(<<"m", "a", "s", "t", "e", "r">>),
     Some(I64MinMagnitude)}

\* Option::or, Option::or_else
or(opt, other) == IF opt.some THEN opt ELSE other

\* parse_master_server_id_from_values with the signed reading tried first
parse_master_server_id_signed_first(unsigned, signed, text) ==
    or(or(signed, IF unsigned.some THEN i64_try_from(unsigned.value) ELSE Absent),
       IF text.some THEN parse_i64_numeral(text.value) ELSE Absent)

\* parse_master_server_id_from_values
parse_master_server_id_from_values(unsigned, signed, text) ==
    or(or(IF unsigned.some THEN i64_try_from(unsigned.value) ELSE Absent, signed),
       IF text.some THEN parse_i64_numeral(text.value) ELSE Absent)

MsidIdle ==
    /\ master_server_id_readings = <<Absent, Absent, Absent>>
    /\ master_server_id_result = None
    /\ master_server_id = <<"0">>

\* A SHOW SLAVE STATUS row is at hand, read in each of the three ways.
MsidInputs ==
    /\ master_server_id_readings \in UnsignedReadings \X SignedReadings \X TextReadings
    /\ master_server_id_result = None
    /\ master_server_id = <<"0">>

\* let master_server_id = parse_master_server_id(row);
\* self.master_server_id.set(master_server_id.unwrap_or_default())
ParseMasterServerId ==
    /\ ~master_server_id_result.some
    /\ LET result == parse_master_server_id_from_values(master_server_id_readings[1],
                        master_server_id_readings[2], master_server_id_readings[3])
       IN  /\ master_server_id_result' = Some(result)
           /\ master_server_id' = unwrap_or(result, <<"0">>)
    /\ UNCHANGED master_server_id_readings
    /\ UNCHANGED othersMsid

(***************************************************************************)
(* DefaultCollector::collect (collectors/default/mod.rs); the collect of   *)
(* ExporterCollector (collectors/exporter/mod.rs) is the same code over    *)
(* its own sub-collectors.                                                 *)
(***************************************************************************)
\* DefaultCollector::new: subs
DefaultSubs == {"version", "status", "plugins"}

NoTask == [pc |-> "none", awaits |-> 0, res |-> "none"]

CompoundInit ==
    /\ tasks = [sub \in DefaultSubs |-> NoTask]
    /\ compound = [pc |-> "idle", res |-> "none", from |-> "none", collects |-> 0]

\* collect is called: one future per sub-collector is pushed, none polled yet.
compound_collect ==
    /\ compound.pc \in {"idle", "returned"}
    /\ compound.collects < MaxCompoundCollects
    /\ tasks' = [sub \in DefaultSubs |-> [pc |-> "pending", awaits |-> 0, res |-> "none"]]
    /\ compound' = [pc |-> "polling", res |-> "none", from |-> "none",
                    collects |-> compound.collects + 1]
    /\ UNCHANGED othersCompound

\* tasks.next().await polls a pending future, which gets past one of its
\* await points and is pending at the next.
task_progress(sub) ==
    /\ compound.pc = "polling"
    /\ tasks[sub].pc = "pending"
    /\ tasks[sub].awaits < MaxAwaits
    /\ tasks' = [tasks EXCEPT ![sub].awaits = @ + 1]
    /\ UNCHANGED compound
    /\ UNCHANGED othersCompound

\* tasks.next().await polls a pending future, whose collect returns res; the
\* stream yields it and the loop body runs res?: an Err returns from collect,
\* which drops tasks and the futures still pending in it; after the last Ok
\* the stream ends and collect returns Ok(()).
task_completes(sub, res) ==
    /\ compound.pc = "polling"
    /\ tasks[sub].pc = "pending"
    /\ LET yielded == [tasks EXCEPT ![sub] = [@ EXCEPT !.pc = "complete", !.res = res]]
       IN  IF res = "err"
           THEN /\ tasks' = [s \in DefaultSubs |->
                               IF yielded[s].pc = "pending"
                               THEN [yielded[s] EXCEPT !.pc = "dropped"] ELSE yielded[s]]
                /\ compound' = [compound EXCEPT !.pc = "returned", !.res = "err", !.from = sub]
           ELSE /\ tasks' = yielded
                /\ compound' = IF \A s \in DefaultSubs : yielded[s].pc = "complete"
                               THEN [compound EXCEPT !.pc = "returned", !.res = "ok"]
                               ELSE compound
    /\ UNCHANGED othersCompound

CompoundCollect == compound_collect

TaskProgress == \E sub \in DefaultSubs : task_progress(sub)

TaskCompletes == \E sub \in DefaultSubs, res \in {"ok", "err"} : task_completes(sub, res)

(***************************************************************************)
(* ProcessCollector::collect_stats (collectors/exporter/process.rs).       *)
(***************************************************************************)
\* sysinfo::MINIMUM_CPU_UPDATE_INTERVAL, in ticks of the clock
MINIMUM_CPU_UPDATE_INTERVAL == 2

StatsCallers == 1..NumStatsCallers

\* What the operating system may report for the process
ProcessReadings ==
    {[cpu_usage |-> 0, memory |-> 10, virtual_memory |-> 20, fds |-> 3],
     [cpu_usage |-> 5, memory |-> 11, virtual_memory |-> 21, fds |-> 4]}

\* Instant::duration_since: zero when the earlier instant is the later one
duration_since(later, earlier) == IF later >= earlier THEN later - earlier ELSE 0

\* should_wait with the interval's end counted as too early
should_wait_inclusive(last_refresh, at) ==
    last_refresh.some /\ duration_since(at, last_refresh.value) <= MINIMUM_CPU_UPDATE_INTERVAL

\* state.last_refresh.is_some_and(|last| now.duration_since(last) < MINIMUM_CPU_UPDATE_INTERVAL)
should_wait(last_refresh, at) ==
    last_refresh.some /\ duration_since(at, last_refresh.value) < MINIMUM_CPU_UPDATE_INTERVAL

\* ProcessCollector::new: System::new_all() takes a first snapshot,
\* last_refresh is None, the four gauges are 0.
ProcessInit ==
    /\ instant = 0
    /\ os_process = [cpu_usage |-> 0, memory |-> 10, virtual_memory |-> 20, fds |-> 3]
    /\ system = [process |-> os_process, last_refresh |-> None]
    /\ process_gauges = [cpu_percent |-> 0, resident_memory_bytes |-> 0,
                         virtual_memory_bytes |-> 0, open_fds |-> 0]
    /\ stats_calls = [c \in StatsCallers |-> [pc |-> "idle", now |-> 0]]

\* Time passes.
ProcessTick ==
    /\ instant < MaxInstant
    /\ instant' = instant + 1
    /\ UNCHANGED <<os_process, system, process_gauges, stats_calls>>
    /\ UNCHANGED othersProcess

\* The process uses more or less CPU, memory and file descriptors.
ProcessChanges ==
    /\ os_process' \in ProcessReadings \ {os_process}
    /\ UNCHANGED <<instant, system, process_gauges, stats_calls>>
    /\ UNCHANGED othersProcess

\* collect_stats, entry: let now = Instant::now(), before the mutex is taken
stats_enter(c) ==
    /\ stats_calls[c].pc = "idle"
    /\ stats_calls' = [stats_calls EXCEPT ![c] = [pc |-> "entered", now |-> instant]]
    /\ UNCHANGED <<instant, os_process, system, process_gauges>>
    /\ UNCHANGED othersProcess

\* collect_stats, the body under the mutex (Linux: open_fds counts /proc/pid/fd)
collect_stats(c) ==
    /\ stats_calls[c].pc = "entered"
    /\ IF should_wait(system.last_refresh, stats_calls[c].now)
       THEN /\ process_gauges' = [process_gauges EXCEPT
                                     !.resident_memory_bytes = system.process.memory,
                                     !.virtual_memory_bytes = system.process.virtual_memory]
            /\ UNCHANGED system
       ELSE /\ system' = [process |-> os_process, last_refresh |-> Some(stats_calls[c].now)]
            /\ process_gauges' = [cpu_percent |-> os_process.cpu_usage,
                                  resident_memory_bytes |-> os_process.memory,
                                  virtual_memory_bytes |-> os_process.virtual_memory,
                                  open_fds |-> os_process.fds]
    /\ stats_calls' = [stats_calls EXCEPT ![c].pc = "idle"]
    /\ UNCHANGED <<instant, os_process>>
    /\ UNCHANGED othersProcess

StatsEnter == \E c \in StatsCallers : stats_enter(c)

CollectStats == \E c \in StatsCallers : collect_stats(c)

(***************************************************************************)
(* StatusCollector::set_from_status, set_from_status_ms_to_seconds and     *)
(* set_counter_from_status on raw status values                            *)
(* (collectors/default/status.rs).                                         *)
(***************************************************************************)
\* status.get(key): no entry, or the raw string of the value
Missing == [some |-> FALSE, value |-> <<>>]

UptimeValues == {Missing, Some(<<"2">>), Some(<<"O", "N">>)}

LockTimeValues == {Missing, Some(<<"5", "0", "0", "0">>), Some(<<"1", ".", "5">>)}

QuestionsValues ==
    {Missing, Some(<<"2">>), Some(<<"3">>), Some(<<"O", "N">>), Some(<<>>),
     Some(<<"9", "9", "9", "9", "9", "9", "9", "9", "9", "9", "9", "9", "9", "9", "9", "9", "9", "9", "9", "9">>)}

\* set_from_status storing 0 when the value does not parse
set_from_status_zero_on_error(raw, gauge) ==
    IF raw.some THEN unwrap_or(parse_i64(raw.value), 0) ELSE gauge

\* set_from_status: the gauge after the call
set_from_status(raw, gauge) ==
    IF raw.some /\ parse_i64(raw.value).some THEN parse_i64(raw.value).value ELSE gauge

\* v / 1_000 on i64: the quotient is truncated towards zero
div_1000(v) == IF v >= 0 THEN v \div 1000 ELSE 0 - ((0 - v) \div 1000)

\* set_from_status_ms_to_seconds: the gauge after the call
set_from_status_ms_to_seconds(raw, gauge) ==
    IF raw.some /\ parse_i64(raw.value).some THEN div_1000(parse_i64(raw.value).value) ELSE gauge

\* set_counter_from_status on the raw value: counter and last_seen after the call
set_counter_from_status_raw(raw, st) ==
    IF raw.some /\ parse_i64(raw.value).some
    THEN set_counter_from_status(st, parse_i64(raw.value).value)
    ELSE st

NewSampled ==
    [global_uptime |-> 0, innodb_row_lock_time |-> 0, questions_total |-> 0, questions_last |-> 0]

SampleInit ==
    /\ global_status = [Uptime |-> Missing, Innodb_row_lock_time |-> Missing, Questions |-> Missing]
    /\ sampled = NewSampled
    /\ clean = NewSampled
    /\ samples = 0

\* The collector given to it only what parses: a value that is missing or
\* does not parse is not shown to it at all.
clean_after(st, uptime, lock_time, questions) ==
    LET counter == IF questions.some /\ parse_i64(questions.value).some
                   THEN set_counter_from_status(
                            [questions_total |-> st.questions_total,
                             questions_last |-> st.questions_last],
                            parse_i64(questions.value).value)
                   ELSE [questions_total |-> st.questions_total,
                         questions_last |-> st.questions_last]
    IN  [global_uptime |-> IF uptime.some /\ parse_i64(uptime.value).some
                           THEN parse_i64(uptime.value).value ELSE st.global_uptime,
         innodb_row_lock_time |-> IF lock_time.some /\ parse_i64(lock_time.value).some
                                  THEN div_1000(parse_i64(lock_time.value).value)
                                  ELSE st.innodb_row_lock_time,
         questions_total |-> counter.questions_total,
         questions_last |-> counter.questions_last]

\* One scrape: the status map is read and the three metrics are set from it.
collect_status_values(uptime, lock_time, questions) ==
    /\ samples < MaxSamples
    /\ samples' = samples + 1
    /\ global_status' = [Uptime |-> uptime, Innodb_row_lock_time |-> lock_time,
                         Questions |-> questions]
    /\ LET counter == set_counter_from_status_raw(questions,
                          [questions_total |-> sampled.questions_total,
                           questions_last |-> sampled.questions_last])
       IN  sampled' = [global_uptime |-> set_from_status(uptime, sampled.global_uptime),
                       innodb_row_lock_time |->
                           set_from_status_ms_to_seconds(lock_time, sampled.innodb_row_lock_time),
                       questions_total |-> counter.questions_total,
                       questions_last |-> counter.questions_last]
    /\ clean' = clean_after(clean, uptime, lock_time, questions)
    /\ UNCHANGED othersSample

CollectStatusValues ==
    \E uptime \in UptimeValues, lock_time \in LockTimeValues, questions \in QuestionsValues :
        collect_status_values(uptime, lock_time, questions)

(***************************************************************************)
(* record_success / record_error of overlapping scrapes of one collector   *)
(* (collectors/exporter/scraper.rs).  The timestamp is read from           *)
(* SystemTime::now() first and stored in the gauge afterwards, with no     *)
(* lock held in between.                                                   *)
(***************************************************************************)
RecorderIds == 1..NumRecorders

RecordKinds == {"record_success", "record_error"}

IdleRecorder == [pc |-> "idle", kind |-> "record_success", timestamp |-> 0]

StampInit ==
    /\ system_time = 0
    /\ recorders = [r \in RecorderIds |-> IdleRecorder]
    /\ last_scrape_timestamp_seconds = -1

\* The wall clock advances.
SystemTimeAdvances ==
    /\ system_time < MaxSystemTime
    /\ system_time' = system_time + 1
    /\ UNCHANGED <<recorders, last_scrape_timestamp_seconds>>
    /\ UNCHANGED othersStamp

\* let timestamp = SystemTime::now().duration_since(UNIX_EPOCH)...
read_timestamp(r, kind) ==
    /\ recorders[r].pc = "idle"
    /\ recorders' = [recorders EXCEPT ![r] =
                        [pc |-> "read", kind |-> kind, timestamp |-> system_time]]
    /\ UNCHANGED <<system_time, last_scrape_timestamp_seconds>>
    /\ UNCHANGED othersStamp

\* self.last_scrape_timestamp.with_label_values(&[collector_name]).set(timestamp)
set_timestamp(r) ==
    /\ recorders[r].pc = "read"
    /\ last_scrape_timestamp_seconds' = recorders[r].timestamp
    /\ recorders' = [recorders EXCEPT ![r].pc = "done"]
    /\ UNCHANGED system_time
    /\ UNCHANGED othersStamp

ReadTimestamp == \E r \in RecorderIds, kind \in RecordKinds : read_timestamp(r, kind)
SetTimestamp == \E r \in RecorderIds : set_timestamp(r)

(***************************************************************************)
(* TlsCollector::collect (collectors/tls/mod.rs); SslStatusCollector in    *)
(* collectors/tls/status.rs has the same body.                             *)
(***************************************************************************)
\* ssl_data.get(name) when the query returned no such row
NoVariable == [some |-> FALSE, value |-> ""]

\* A certificate date as the server prints it, given by what
\* NaiveDateTime::parse_from_str makes of it.
NoDate == [some |-> FALSE, value |-> [parses |-> FALSE, timestamp |-> 0]]

SslVersions == {NoVariable, Some(""), Some("TLSv1.2"), Some("TLSv1.3")}

SslCiphers == {NoVariable, Some("AES128-SHA"), Some("AES256-SHA")}

NotBeforeDates == {NoDate, Some([parses |-> TRUE, timestamp |-> 1])}

NotAfterDates ==
    {NoDate, Some([parses |-> FALSE, timestamp |-> 0]), Some([parses |-> TRUE, timestamp |-> 2])}

\* parse_ssl_timestamp: the Unix timestamp of a date that parses
parse_ssl_timestamp(date) ==
    IF date.parses THEN [ok |-> TRUE, timestamp |-> date.timestamp]
    ELSE [ok |-> FALSE, timestamp |-> 0]

TlsInit ==
    /\ ssl_data = [ok |-> FALSE, Ssl_version |-> NoVariable, Ssl_cipher |-> NoVariable,
                   Ssl_server_not_before |-> NoDate, Ssl_server_not_after |-> NoDate]
    /\ ssl_server_configured = 0
    /\ ssl_version_info = {}
    /\ ssl_cert_seconds = [not_before |-> 0, not_after |-> 0]
    /\ tls_collects = 0

\* The certificate gauge after `if let Some(date) = ssl_data.get(..) { match
\* parse_ssl_timestamp(date) { Ok(timestamp) => gauge.set(timestamp), Err => warn } }`
cert_gauge_after(gauge, date) ==
    IF date.some /\ parse_ssl_timestamp(date.value).ok
    THEN parse_ssl_timestamp(date.value).timestamp
    ELSE gauge

\* collect: the query, then the gauges set from its rows.
tls_collect(data) ==
    /\ tls_collects < MaxTlsCollects
    /\ tls_collects' = tls_collects + 1
    /\ ssl_data' = data
    /\ IF data.ok /\ data.Ssl_version.some /\ data.Ssl_version.value # ""
       THEN /\ ssl_server_configured' = 1
            /\ ssl_version_info' =
                   IF data.Ssl_cipher.some
                   THEN ssl_version_info \cup
                            {<<data.Ssl_version.value, data.Ssl_cipher.value>>}
                   ELSE ssl_version_info
            /\ ssl_cert_seconds' =
                   [not_before |-> cert_gauge_after(ssl_cert_seconds.not_before,
                                                    data.Ssl_server_not_before),
                    not_after |-> cert_gauge_after(ssl_cert_seconds.not_after,
                                                   data.Ssl_server_not_after)]
       ELSE /\ ssl_server_configured' = 0
            /\ UNCHANGED <<ssl_version_info, ssl_cert_seconds>>
    /\ UNCHANGED othersTls

\* What fetch_all returns: an error, or the rows the server has.
SslQueryResults ==
    [ok : {TRUE}, Ssl_version : SslVersions, Ssl_cipher : SslCiphers,
     Ssl_server_not_before : NotBeforeDates, Ssl_server_not_after : NotAfterDates]
    \cup {[ok |-> FALSE, Ssl_version |-> NoVariable, Ssl_cipher |-> NoVariable,
           Ssl_server_not_before |-> NoDate, Ssl_server_not_after |-> NoDate]}

TlsCollect == \E data \in SslQueryResults : tls_collect(data)

(***************************************************************************)
(* Specifications: one per component, the other components left idle.      *)
(***************************************************************************)
\* Scrape timers.
InitTimer == TimerInit /\ CounterInit /\ RegInit /\ PoolInit /\ CliIdle /\ GatherInit /\ IncInit /\ VersionInit /\ CardInit /\ GlobalsInit /\ ReplInit /\ NormInit /\ QrtInit /\ InnodbInit /\ MsidIdle /\ CompoundInit /\ ProcessInit /\ SampleInit /\ StampInit /\ TlsInit
NextTimer == Tick \/ StartScrape \/ TimerSuccess \/ TimerError \/ TimerDrop
SpecTimer == InitTimer /\ [][NextTimer]_vars

\* The delta counter, one scrape at a time.
InitCounter == CounterInit /\ TimerInit /\ RegInit /\ PoolInit /\ CliIdle /\ GatherInit /\ IncInit /\ VersionInit /\ CardInit /\ GlobalsInit /\ ReplInit /\ NormInit /\ QrtInit /\ InnodbInit /\ MsidIdle /\ CompoundInit /\ ProcessInit /\ SampleInit /\ StampInit /\ TlsInit
NextCounter == CollectStatus
SpecCounter == InitCounter /\ [][NextCounter]_vars

\* The delta counter under overlapping scrapes.
InitCounterRace == RaceInit /\ TimerInit /\ RegInit /\ PoolInit /\ CliIdle /\ GatherInit /\ IncInit /\ VersionInit /\ CardInit /\ GlobalsInit /\ ReplInit /\ NormInit /\ QrtInit /\ InnodbInit /\ MsidIdle /\ CompoundInit /\ ProcessInit /\ SampleInit /\ StampInit /\ TlsInit
NextCounterRace == ServerGrow \/ QueryStatus \/ SwapLastSeen \/ CounterReset \/ CounterIncBy
SpecCounterRace == InitCounterRace /\ [][NextCounterRace]_vars

\* Registration of any subset of the collectors on one registry, in any order.
InitRegister == RegInit /\ TimerInit /\ CounterInit /\ PoolInit /\ CliIdle /\ GatherInit /\ IncInit /\ VersionInit /\ CardInit /\ GlobalsInit /\ ReplInit /\ NormInit /\ QrtInit /\ InnodbInit /\ MsidIdle /\ CompoundInit /\ ProcessInit /\ SampleInit /\ StampInit /\ TlsInit
NextRegister == RegisterMetrics
SpecRegister == InitRegister /\ [][NextRegister]_vars

\* Initialisation of the connection state overlapping with pool requests.
InitPool == PoolInit /\ TimerInit /\ CounterInit /\ RegInit /\ CliIdle /\ GatherInit /\ IncInit /\ VersionInit /\ CardInit /\ GlobalsInit /\ ReplInit /\ NormInit /\ QrtInit /\ InnodbInit /\ MsidIdle /\ CompoundInit /\ ProcessInit /\ SampleInit /\ StampInit /\ TlsInit
NextPool ==
    \/ InitCheckBase \/ InitSetBase \/ InitSetDefault \/ InitSetPools
    \/ CallCheckDefault \/ CallGetPools \/ CallLookup \/ CallConnect \/ CallInsert
SpecPool == InitPool /\ [][NextPool]_vars
\* Initialisation calls overlapping with each other and with one
\* get_or_create_pool_for_db call that fills the cache.
CallerSteps ==
    \/ \E d \in Databases : call_check_default(1, d)
    \/ call_get_pools(1) \/ call_lookup(1) \/ call_connect(1) \/ call_insert(1)
NextPoolInit == InitCheckBase \/ InitSetBase \/ InitSetDefault \/ InitSetPools \/ CallerSteps
SpecPoolInit == InitPool /\ [][NextPoolInit]_vars

\* Startup over every command line of collector flags.
InitCli == CliInit /\ TimerInit /\ CounterInit /\ RegInit /\ PoolInit /\ GatherInit /\ IncInit /\ VersionInit /\ CardInit /\ GlobalsInit /\ ReplInit /\ NormInit /\ QrtInit /\ InnodbInit /\ MsidIdle /\ CompoundInit /\ ProcessInit /\ SampleInit /\ StampInit /\ TlsInit
NextCli == Startup
SpecCli == InitCli /\ [][NextCli]_vars

\* Sequential gathers.
InitGather == GatherInit /\ TimerInit /\ CounterInit /\ RegInit /\ PoolInit /\ CliIdle /\ IncInit /\ VersionInit /\ CardInit /\ GlobalsInit /\ ReplInit /\ NormInit /\ QrtInit /\ InnodbInit /\ MsidIdle /\ CompoundInit /\ ProcessInit /\ SampleInit /\ StampInit /\ TlsInit
NextGather == Gather
SpecGather == InitGather /\ [][NextGather]_vars

\* Overlapping increment_scrapes calls.
InitInc == IncInit /\ TimerInit /\ CounterInit /\ RegInit /\ PoolInit /\ CliIdle /\ GatherInit /\ VersionInit /\ CardInit /\ GlobalsInit /\ ReplInit /\ NormInit /\ QrtInit /\ InnodbInit /\ MsidIdle /\ CompoundInit /\ ProcessInit /\ SampleInit /\ StampInit /\ TlsInit
NextInc == IncCall \/ IncLock \/ IncRead \/ IncWrite \/ IncSet \/ IncReturn
SpecInc == InitInc /\ [][NextInc]_vars

\* Successive update_version_metrics calls.
InitVersion == VersionInit /\ TimerInit /\ CounterInit /\ RegInit /\ PoolInit /\ CliIdle /\ GatherInit /\ IncInit /\ CardInit /\ GlobalsInit /\ ReplInit /\ NormInit /\ QrtInit /\ InnodbInit /\ MsidIdle /\ CompoundInit /\ ProcessInit /\ SampleInit /\ StampInit /\ TlsInit
NextVersion == UpdateVersionMetrics
SpecVersion == InitVersion /\ [][NextVersion]_vars

\* Successive scrapes of the schema and statements collectors.
InitCard == CardInit /\ TimerInit /\ CounterInit /\ RegInit /\ PoolInit /\ CliIdle /\ GatherInit /\ IncInit /\ VersionInit /\ GlobalsInit /\ ReplInit /\ NormInit /\ QrtInit /\ InnodbInit /\ MsidIdle /\ CompoundInit /\ ProcessInit /\ SampleInit /\ StampInit /\ TlsInit
NextCard == SchemaCollect \/ StatementsCollect
SpecCard == InitCard /\ [][NextCard]_vars

\* The write-once globals under any sequence of set calls.
InitGlobals == GlobalsInit /\ TimerInit /\ CounterInit /\ RegInit /\ PoolInit /\ CliIdle /\ GatherInit /\ IncInit /\ VersionInit /\ CardInit /\ ReplInit /\ NormInit /\ QrtInit /\ InnodbInit /\ MsidIdle /\ CompoundInit /\ ProcessInit /\ SampleInit /\ StampInit /\ TlsInit
NextGlobals == SetExcludedDatabases \/ SetMariadbVersion
SpecGlobals == InitGlobals /\ [][NextGlobals]_vars

\* The collectors reading SHOW SLAVE STATUS, scrape after scrape.
InitRepl == ReplInit /\ TimerInit /\ CounterInit /\ RegInit /\ PoolInit /\ CliIdle /\ GatherInit /\ IncInit /\ VersionInit /\ CardInit /\ GlobalsInit /\ NormInit /\ QrtInit /\ InnodbInit /\ MsidIdle /\ CompoundInit /\ ProcessInit /\ SampleInit /\ StampInit /\ TlsInit
NextRepl == CollectReplication \/ ReplicationCollect \/ ReplicaStatusCollect
SpecRepl == InitRepl /\ [][NextRepl]_vars

\* Version normalization over every version string.
InitNorm == NormInputs /\ TimerInit /\ CounterInit /\ RegInit /\ PoolInit /\ CliIdle /\ GatherInit /\ IncInit /\ VersionInit /\ CardInit /\ GlobalsInit /\ ReplInit /\ QrtInit /\ InnodbInit /\ MsidIdle /\ CompoundInit /\ ProcessInit /\ SampleInit /\ StampInit /\ TlsInit
NextNorm == NormalizeVersion
SpecNorm == InitNorm /\ [][NextNorm]_vars

InitQrt == QrtInit /\ NormInit /\ TimerInit /\ CounterInit /\ RegInit /\ PoolInit /\ CliIdle /\ GatherInit /\ IncInit /\ VersionInit /\ CardInit /\ GlobalsInit /\ ReplInit /\ InnodbInit /\ MsidIdle /\ CompoundInit /\ ProcessInit /\ SampleInit /\ StampInit /\ TlsInit
NextQrt == ServerRecord \/ QrtCollect
SpecQrt == InitQrt /\ [][NextQrt]_vars

InitInnodb == InnodbInit /\ QrtInit /\ NormInit /\ TimerInit /\ CounterInit /\ RegInit /\ PoolInit /\ CliIdle /\ GatherInit /\ IncInit /\ VersionInit /\ CardInit /\ GlobalsInit /\ ReplInit /\ MsidIdle /\ CompoundInit /\ ProcessInit /\ SampleInit /\ StampInit /\ TlsInit
NextInnodb == ServerStatus \/ InnodbCollect
SpecInnodb == InitInnodb /\ [][NextInnodb]_vars

InitMsid == MsidInputs /\ InnodbInit /\ QrtInit /\ NormInit /\ TimerInit /\ CounterInit /\ RegInit /\ PoolInit /\ CliIdle /\ GatherInit /\ IncInit /\ VersionInit /\ CardInit /\ GlobalsInit /\ ReplInit /\ CompoundInit /\ ProcessInit /\ SampleInit /\ StampInit /\ TlsInit
NextMsid == ParseMasterServerId
SpecMsid == InitMsid /\ [][NextMsid]_vars

InitCompound == CompoundInit /\ MsidIdle /\ InnodbInit /\ QrtInit /\ NormInit /\ TimerInit /\ CounterInit /\ RegInit /\ PoolInit /\ CliIdle /\ GatherInit /\ IncInit /\ VersionInit /\ CardInit /\ GlobalsInit /\ ReplInit /\ ProcessInit /\ SampleInit /\ StampInit /\ TlsInit
NextCompound == CompoundCollect \/ TaskProgress \/ TaskCompletes
SpecCompound == InitCompound /\ [][NextCompound]_vars

InitProcess == ProcessInit /\ CompoundInit /\ MsidIdle /\ InnodbInit /\ QrtInit /\ NormInit /\ TimerInit /\ CounterInit /\ RegInit /\ PoolInit /\ CliIdle /\ GatherInit /\ IncInit /\ VersionInit /\ CardInit /\ GlobalsInit /\ ReplInit /\ SampleInit /\ StampInit /\ TlsInit
NextProcess == ProcessTick \/ ProcessChanges \/ StatsEnter \/ CollectStats
SpecProcess == InitProcess /\ [][NextProcess]_vars

InitSample == SampleInit /\ ProcessInit /\ CompoundInit /\ MsidIdle /\ InnodbInit /\ QrtInit /\ NormInit /\ TimerInit /\ CounterInit /\ RegInit /\ PoolInit /\ CliIdle /\ GatherInit /\ IncInit /\ VersionInit /\ CardInit /\ GlobalsInit /\ ReplInit /\ StampInit /\ TlsInit
NextSample == CollectStatusValues
SpecSample == InitSample /\ [][NextSample]_vars

InitStamp == StampInit /\ SampleInit /\ ProcessInit /\ CompoundInit /\ MsidIdle /\ InnodbInit /\ QrtInit /\ NormInit /\ TimerInit /\ CounterInit /\ RegInit /\ PoolInit /\ CliIdle /\ GatherInit /\ IncInit /\ VersionInit /\ CardInit /\ GlobalsInit /\ ReplInit /\ TlsInit
NextStamp == SystemTimeAdvances \/ ReadTimestamp \/ SetTimestamp
SpecStamp == InitStamp /\ [][NextStamp]_vars

InitTls == TlsInit /\ StampInit /\ SampleInit /\ ProcessInit /\ CompoundInit /\ MsidIdle /\ InnodbInit /\ QrtInit /\ NormInit /\ TimerInit /\ CounterInit /\ RegInit /\ PoolInit /\ CliIdle /\ GatherInit /\ IncInit /\ VersionInit /\ CardInit /\ GlobalsInit /\ ReplInit
NextTls == TlsCollect
SpecTls == InitTls /\ [][NextTls]_vars

(***************************************************************************)
(* Scrape accounting claims.                                               *)
(***************************************************************************)
ReleasedTimers(c) ==
    {t \in TimerIds : timers[t].state = "released" /\ timers[t].collector_name = c}

\* C1: completing a timer with error() raises scrape_errors_total{collector=c}
\* by exactly 1 and leaves last_scrape_success{collector=c} at 0, and the flag
\* leaves 0 only when a timer for c records success (success() or a release
\* without outcome).
C1_ErrorLeavesFailureFlag ==
    [][ /\ \A t \in TimerIds :
             error(t) =>
                 LET c == timers[t].collector_name IN
                 /\ scraper'.scrape_errors_total[c] = scraper.scrape_errors_total[c] + 1
                 /\ scraper'.last_scrape_success[c] = 0
        /\ \A c \in TimedCollectors :
             (scraper.last_scrape_success[c] = 0 /\ scraper'.last_scrape_success[c] # 0) =>
                 \E t \in TimerIds :
                     timers[t].collector_name = c /\ (success(t) \/ drop(t)) ]_vars

\* C2: every released timer has applied exactly one outcome record: per
\* collector, the outcome records applied (duration observations made by
\* record_success plus errors counted by record_error) number exactly the
\* released timers.
C2_OneOutcomePerTimer ==
    \A c \in TimedCollectors :
        scraper.scrape_duration_seconds[c].count + scraper.scrape_errors_total[c]
            = Cardinality(ReleasedTimers(c))

\* C3: each completed timer for c adds exactly one observation to
\* scrape_duration_seconds{collector=c}, whether it succeeded or failed.
C3_OneObservationPerTimer ==
    \A c \in TimedCollectors :
        scraper.scrape_duration_seconds[c].count = Cardinality(ReleasedTimers(c))

(***************************************************************************)
(* Delta counter claims.                                                   *)
(***************************************************************************)
\* The sum of forward deltas since the most recent restart, a restart being
\* an observation lower than the one before it (the counter then restarts
\* from that observation); the value before the first observation is 0.
RECURSIVE ForwardDeltaSum(_)
ForwardDeltaSum(obs) ==
    IF obs = <<>> THEN 0
    ELSE LET n == Len(obs)
             v == obs[n]
             prev == IF n = 1 THEN 0 ELSE obs[n - 1]
         IN  IF v < prev THEN v
             ELSE ForwardDeltaSum(SubSeq(obs, 1, n - 1)) + (v - prev)

SetMax(S) == CHOOSE m \in S : \A x \in S : x <= m

\* The largest Questions value any scrape has read from the server so far.
LargestObserved ==
    SetMax({0} \cup {observations[k] : k \in DOMAIN observations}
               \cup {scrape[i].v : i \in {j \in ScrapeIds : scrape[j].pc # "idle"}})

\* C4: with Questions only growing, overlapping executions of
\* set_counter_from_status count no increment twice: the counter never exceeds
\* the largest value observed, and equals it once every scrape has finished.
C4_NoDoubleCounting ==
    /\ status.questions_total <= LargestObserved
    /\ (\A i \in ScrapeIds : scrape[i].pc = "done") =>
           status.questions_total = LargestObserved

NonNegative(obs) == \A i \in DOMAIN obs : obs[i] >= 0

S6Observations == <<100, 150, 200, 50, 75>>

C6_RegistrationCollisionFree ==
    \A c \in CollectorNameSet : registration[c] # "err"

(***************************************************************************)
(* Pool cache claims.                                                      *)
(***************************************************************************)
PoolsBuiltFor(d) == {id \in 1..Len(built) : built[id] = d}

ReturnedOk(k, d) ==
    callers[k].pc = "done" /\ callers[k].result = "ok" /\ callers[k].datname = d

\* C7: for a database that is not the default one, at most one pool is ever
\* constructed, and every call that returned a pool returned the cached one.
C7_SinglePoolPerDatabase ==
    \A d \in Databases :
        (DEFAULT_DB.set /\ DEFAULT_DB.value # d) =>
            /\ Cardinality(PoolsBuiltFor(d)) <= 1
            /\ \A k \in CallerIds : ReturnedOk(k, d) => callers[k].pool = POOLS.value[d]

\* C8: the cache never has an entry under the default database name, and no
\* call for the default database returns a pool.
C8_DefaultNeverCached ==
    DEFAULT_DB.set =>
        /\ POOLS.value[DEFAULT_DB.value] = 0
        /\ \A k \in CallerIds : ~ReturnedOk(k, DEFAULT_DB.value)

(***************************************************************************)
(* Collector flag claims.                                                  *)
(***************************************************************************)
\* The positions of the command line that carry a flag of collector name.
FlagPositions(name) == {i \in 1..Len(argv) : argv[i].name = name}

LastPosition(name) == CHOOSE i \in FlagPositions(name) : \A j \in FlagPositions(name) : j <= i

\* The later of --collector.X and --no-collector.X is --collector.X, or neither
\* is given and X is enabled by default.
LastWins(name) ==
    IF FlagPositions(name) = {} THEN enabled_by_default(name)
    ELSE argv[LastPosition(name)].enable

OwnFlags(name) == SelectSeq(argv, LAMBDA a : a.name = name)

\* C9: once the command line is parsed, X is enabled exactly when its later
\* flag is the enable flag (or it has no flag and is enabled by default), and
\* the answer is the one the command line with only X's flags gives.
C9_FlagLastWins ==
    cli.pc = "running" =>
        \A name \in FlagCollectors :
            /\ (name \in cli.enabled) = LastWins(name)
            /\ (name \in cli.enabled) =
                   (name \in get_enabled_collectors(get_matches_from(OwnFlags(name), args_override_self)))

\* Both orders of the two flags of one collector occur on one parsed command
\* line, next to a flag of another collector.
C9_Witness ==
    /\ cli.pc = "running"
    /\ argv = <<enable_flag("default"), disable_flag("default"),
                disable_flag("exporter"), enable_flag("exporter")>>
    /\ cli.enabled = {"exporter"}

(***************************************************************************)
(* Self-reported cardinality claims.                                       *)
(***************************************************************************)
\* C10: from the second gather on, the metrics_total value in a gather's
\* exposition is the number of samples the previous gather emitted.
C10_CardinalityTrailsByOne ==
    \A n \in 2..Len(expositions) :
        expositions[n].metrics_total = expositions[n - 1].samples

\* Three gathers whose sample counts differ from one to the next.
C10_Witness ==
    /\ Len(expositions) >= 3
    /\ expositions[1].samples # expositions[2].samples
    /\ expositions[2].samples # expositions[3].samples
    /\ expositions[3].metrics_total = expositions[2].samples

(***************************************************************************)
(* scrapes_total claims.                                                   *)
(***************************************************************************)
\* C11: the scrapes_total gauge never decreases, every change raises it by
\* exactly 1, and once k calls have returned and none is in progress it reads k.
C11_ScrapesTotalCounts ==
    /\ []((\A i \in IncrementerIds : incrementers[i].pc = "idle")
            => scraper.scrapes_total = calls_returned)
    /\ [][scraper.scrapes_total' # scraper.scrapes_total
            => scraper.scrapes_total' = scraper.scrapes_total + 1]_vars

\* A second call waits for the guard while the first is between its store and
\* the gauge update, after an earlier call has already returned.
C11_Witness ==
    /\ calls_returned >= 1
    /\ \E i, j \in IncrementerIds :
        /\ incrementers[i].pc = "written"
        /\ incrementers[j].pc = "waiting"

(***************************************************************************)
(* Version metric claims.                                                  *)
(***************************************************************************)
\* C12: after any number of successive update_version_metrics calls,
\* mariadb_version_info holds exactly one row, with the labels of the most
\* recent call and value 1, and mariadb_version_num holds exactly one row.
C12_VersionLabelsReset ==
    version_updates # <<>> =>
        /\ mariadb_version_info =
             {[labels |-> version_updates[Len(version_updates)].info, value |-> 1]}
        /\ Cardinality(mariadb_version_num) = 1

\* Two successive calls with different version strings and server labels.
C12_Witness ==
    /\ Len(version_updates) >= 2
    /\ version_updates[1].info[1] # version_updates[2].info[1]
    /\ version_updates[1].server # version_updates[2].server

(***************************************************************************)
(* Cardinality claims.                                                     *)
(***************************************************************************)
\* C13: after any sequence of scrapes the schema collector exposes at most
\* SchemaLimit {schema, table} tuples and the statements collector at most
\* DigestLimit {digest, schema} tuples.
C13_CardinalityBounded ==
    /\ Cardinality(table_size_bytes) <= SchemaLimit
    /\ Cardinality(top_digest_latencies) <= DigestLimit

(***************************************************************************)
(* Excluded-database and server-version claims.                            *)
(***************************************************************************)
\* The list with every later occurrence of an element removed.
RECURSIVE FirstOccurrences(_)
FirstOccurrences(list) ==
    IF list = <<>> THEN <<>>
    ELSE LET rest == FirstOccurrences(SubSeq(list, 1, Len(list) - 1)) IN
         IF \E i \in 1..Len(rest) : rest[i] = list[Len(list)] THEN rest
         ELSE Append(rest, list[Len(list)])

TrimmedNonEmpty(list) ==
    SelectSeq([i \in 1..Len(list) |-> trim(list[i])], LAMBDA e : e # <<>>)

NoRepeats(list) == \A i, j \in 1..Len(list) : list[i] = list[j] => i = j

\* C14: the observed exclusion list is the input trimmed, without empty
\* entries and without duplicates (first occurrence kept), so no name
\* appears twice.
C14_ExcludedDeduplicated ==
    EXCLUDED.set =>
        /\ get_excluded_databases(EXCLUDED) = FirstOccurrences(TrimmedNonEmpty(excluded_input))
        /\ NoRepeats(get_excluded_databases(EXCLUDED))

\* C15: before the first set the getters return the empty list and 0; once a
\* value is set, no later set call changes what the getters return.
C15_WriteOnce ==
    /\ [](~EXCLUDED.set => get_excluded_databases(EXCLUDED) = <<>>)
    /\ [](~MARIADB_VERSION.set => get_mariadb_version(MARIADB_VERSION) = 0)
    /\ [][/\ EXCLUDED.set =>
                get_excluded_databases(EXCLUDED') = get_excluded_databases(EXCLUDED)
          /\ MARIADB_VERSION.set =>
                get_mariadb_version(MARIADB_VERSION') = get_mariadb_version(MARIADB_VERSION)]_vars

\* Both cells are set and the most recent set calls tried to store values
\* different from the ones observed.
C15_Witness ==
    /\ EXCLUDED.set
    /\ MARIADB_VERSION.set
    /\ set_attempts.excluded # get_excluded_databases(EXCLUDED)
    /\ set_attempts.version # get_mariadb_version(MARIADB_VERSION)

(***************************************************************************)
(* Replica status claims.                                                  *)
(***************************************************************************)
\* The first row of the collector's last SHOW SLAVE STATUS result, if any.
HasRow(c) == slave_gauges[c].queried.ok /\ slave_gauges[c].queried.rows # <<>>
FirstRow(c) == slave_gauges[c].queried.rows[1]

\* C16: when the row read has a NULL Seconds_Behind_Master the lag gauge is
\* -1, in the default status collector and in the replica status sub-collector.
C16_NullLagIsMinusOne ==
    \A c \in {"status", "replica_status"} :
        (HasRow(c) /\ FirstRow(c).Seconds_Behind_Master.null)
            => slave_gauges[c].seconds_behind = -1

RunningValue(col) == IF ~col.null /\ col.text \in {"Yes", "ON", "Running"} THEN 1 ELSE 0

\* C17: in the replication collector the running gauges are 1 exactly when
\* the column is "Yes", "ON" or "Running", and 0 for anything else or NULL.
C17_RunningValues ==
    \A c \in {"replication", "replica_status"} :
        HasRow(c) =>
            /\ slave_gauges[c].io_running = RunningValue(FirstRow(c).Slave_IO_Running)
            /\ slave_gauges[c].sql_running = RunningValue(FirstRow(c).Slave_SQL_Running)

(***************************************************************************)
(* Version normalization claims.                                           *)
(***************************************************************************)
\* The captured digits as a decimal numeral: leading zeros dropped, "0" for a
\* part that is missing.
Numeral(digits) == IF digits = <<>> THEN <<"0">> ELSE strip_zeros(digits)

\* (s, n) for the captured parts: s = "major.minor.patch" and
\* n = major*10000 + minor*100 + patch
RoundTrip(caps, result) ==
    /\ result.normalized = Numeral(caps.major) \o <<".">> \o Numeral(caps.minor)
                              \o <<".">> \o Numeral(caps.patch)
    /\ result.num = decimal_value(Numeral(caps.major)) * 10000
                      + decimal_value(Numeral(caps.minor)) * 100
                      + decimal_value(Numeral(caps.patch))

Unmatched(result, outcome) ==
    result = [normalized |-> ZeroVersion, num |-> 0] /\ outcome = "Err"

\* C18 as stated: for every input matching the pattern the result is the
\* round trip of the captured parts; every unmatched input gives ("0.0.0", 0),
\* reported as a parse failure.
C18_NormalizeAnyInput ==
    normalized.done =>
        IF captures(version_string).matched
        THEN RoundTrip(captures(version_string), normalized.result)
        ELSE Unmatched(normalized.result, normalized.outcome)

InRange(digits) == Len(Numeral(digits)) < I64Digits - 4

\* C18 amended: the round trip holds for matching inputs whose captured
\* numbers are small enough for the i64 arithmetic.
C18_NormalizeInRange ==
    normalized.done =>
        IF captures(version_string).matched
        THEN (InRange(captures(version_string).major)
                /\ InRange(captures(version_string).minor)
                /\ InRange(captures(version_string).patch))
             => RoundTrip(captures(version_string), normalized.result)
        ELSE Unmatched(normalized.result, normalized.outcome)

\* A version with all three parts, a leading zero and a suffix was normalized.
C18_Witness ==
    /\ normalized.done
    /\ version_string = <<"1", "0", ".", "0", "1">>
    /\ normalized.result = [normalized |-> <<"1", "0", ".", "1", ".", "0">>, num |-> 100100]
    /\ normalized.outcome = "Ok"

(***************************************************************************)
(* Query response time claims.  SpecQrt.                                   *)
(***************************************************************************)
\* Positions of the rows that count: COUNT is not 0 and TIME parses
Counted(rows) ==
    {j \in 1..Len(rows) : rows[j].COUNT # 0 /\ parse_f64(trim(rows[j].TIME)).some}

RECURSIVE SumCount(_, _)
SumCount(rows, J) ==
    IF J = {} THEN 0
    ELSE LET j == CHOOSE k \in J : TRUE IN rows[j].COUNT + SumCount(rows, J \ {j})

\* Sum of COUNT over the counted rows whose TIME lies in (lo, hi], both in
\* hundredths of a second
RangeCount(rows, lo, hi) ==
    SumCount(rows, {j \in Counted(rows) :
        LET t == parse_f64(trim(rows[j].TIME)).value IN lo < t /\ t <= hi})

\* Sum of COUNT over the counted rows whose TIME is above lo
Above(rows, lo) ==
    SumCount(rows, {j \in Counted(rows) : parse_f64(trim(rows[j].TIME)).value > lo})

Bucket(le) == (CHOOSE row \in response_time_bucket : row.labels = le).value

\* (0.01,10), (0.5,5), (5.0,2), (30,1), (0.05,3), (TOO LONG,4)
ExampleRows == SubSeq(CandidateRows, 1, 6)

Following(line, pat) == trim(skip_chars(line, find(line, pat) - 1 + Len(pat)))

\* Positions of the lines "<prefix> N" of a text, N a decimal number
NumberLines(text, prefix) ==
    {j \in 1..Len(text) :
        /\ starts_with(trim(text[j]), prefix)
        /\ Following(trim(text[j]), prefix) # <<>>
        /\ digit_run(Following(trim(text[j]), prefix)) = Following(trim(text[j]), prefix)}

\* Positions of the lines of a text that contain pat
LinesWith(text, pat) == {j \in 1..Len(text) : contains(text[j], pat)}

Latest(J) == CHOOSE j \in J : \A k \in J : k <= j

\* Every "<prefix> N" line sets the gauge: the gauge is written and holds the
\* N of the latest such line.
LineSetsGauge(text, prefix, gauge) ==
    NumberLines(text, prefix) # {} =>
        /\ gauge \in written
        /\ status_parser[gauge] =
               decimal_value(Following(trim(text[Latest(NumberLines(text, prefix))]), prefix))

ActiveTransactionsCounted(text) ==
    status_parser.trx_active_transactions =
        Cardinality({j \in 1..Len(text) : /\ starts_with(trim(text[j]), <<"-", "-", "-", "T", "R", "A", "N", "S", "A", "C", "T", "I", "O", "N">>)
                                          /\ contains(text[j], <<"A", "C", "T", "I", "V", "E">>)})

LastOsWaitsWins(text) ==
    LinesWith(text, <<"O", "S", " ", "w", "a", "i", "t", "s">>) # {} =>
        LET line == text[Latest(LinesWith(text, <<"O", "S", " ", "w", "a", "i", "t", "s">>))]
        IN  status_parser.semaphore_waits = decimal_value(digit_run(Following(line, <<"O", "S", " ", "w", "a", "i", "t", "s">>)))

HashLineSetsBoth(text) ==
    LinesWith(text, <<"h", "a", "s", "h", " ", "s", "e", "a", "r", "c", "h", "e", "s", "/", "s">>) # {} =>
        {"adaptive_hash_searches", "adaptive_hash_searches_btree"} \subseteq written

ScenarioS2(text) ==
    text = StatusS2 =>
        /\ status_parser.lsn_current = 123456789
        /\ status_parser.lsn_flushed = 123456000
        /\ status_parser.lsn_checkpoint = 123450000
        /\ status_parser.checkpoint_age = 6789
        /\ status_parser.trx_active_transactions = 2
        /\ status_parser.semaphore_waits = 456
        /\ status_parser.adaptive_hash_searches = 123456
        /\ status_parser.adaptive_hash_searches_btree = 12345

\* C20: after a parse call over a text, every "Log sequence number N", "Log
\* flushed up to N" and "Last checkpoint at N" line has set its gauge, the
\* active_transactions gauge counts the lines that start with
\* "---TRANSACTION" and contain "ACTIVE", the last line containing "OS waits"
\* gives semaphore_waits, a line containing "hash searches/s" has set both
\* adaptive-hash gauges, and the text of scenario S2 gives the listed values.
C20_StatusScan ==
    parsed_text.some =>
        LET text == parsed_text.value
        IN  /\ LineSetsGauge(text, <<"L", "o", "g", " ", "s", "e", "q", "u", "e", "n", "c", "e", " ", "n", "u", "m", "b", "e", "r">>, "lsn_current")
            /\ LineSetsGauge(text, <<"L", "o", "g", " ", "f", "l", "u", "s", "h", "e", "d", " ", "u", "p", " ", "t", "o">>, "lsn_flushed")
            /\ LineSetsGauge(text, <<"L", "a", "s", "t", " ", "c", "h", "e", "c", "k", "p", "o", "i", "n", "t", " ", "a", "t">>, "lsn_checkpoint")
            /\ ActiveTransactionsCounted(text)
            /\ LastOsWaitsWins(text)
            /\ HashLineSetsBoth(text)
            /\ ScenarioS2(text)

(***************************************************************************)
(* Timer release.  SpecTimer.                                              *)
(***************************************************************************)
\* C21: a timer for c released with neither success() nor error() called
\* records success: scrape_duration_seconds{collector=c} gains one
\* observation, of the elapsed duration, last_scrape_success{collector=c} is
\* 1, and scrape_errors_total{collector=c} does not change.
C21_DropRecordsSuccess ==
    [][ \A t \in TimerIds :
            drop(t) =>
                LET c == timers[t].collector_name IN
                /\ scraper'.scrape_duration_seconds[c].count =
                       scraper.scrape_duration_seconds[c].count + 1
                /\ scraper'.scrape_duration_seconds[c].sum =
                       scraper.scrape_duration_seconds[c].sum + (now - timers[t].start)
                /\ scraper'.last_scrape_success[c] = 1
                /\ scraper'.scrape_errors_total[c] = scraper.scrape_errors_total[c] ]_vars

\* A timer started at an earlier clock reading has been released without an
\* outcome after an error had set the flag to 0.
C21_Witness ==
    \E t \in TimerIds :
        /\ timers[t].state = "released" /\ timers[t].ended = "drop"
        /\ timers[t].start < now
        /\ scraper.scrape_errors_total[timers[t].collector_name] = 1
        /\ scraper.last_scrape_success[timers[t].collector_name] = 1

C23_SiblingsComplete ==
    compound.pc = "returned" =>
        /\ \A sub \in DefaultSubs : tasks[sub].pc = "complete"
        /\ (compound.res = "err") = (\E sub \in DefaultSubs : tasks[sub].res = "err")
        /\ compound.res = "err" => tasks[compound.from].res = "err"

(***************************************************************************)
(* Process collector claims.  SpecProcess.                                 *)
(***************************************************************************)
\* C24: a collect that arrived less than the minimum CPU update interval
\* after the last refresh changes at most the two memory gauges: cpu_percent,
\* open_fds and the last-refresh instant stay as they are; a collect with no
\* previous refresh, or arriving at least the interval after it, refreshes:
\* cpu_percent is the new CPU rate and the last-refresh instant is the
\* instant at which that collect arrived.
C24_RefreshInterval ==
    [][ \A c \in StatsCallers :
            collect_stats(c) =>
                LET arrived == stats_calls[c].now
                    previous == system.last_refresh
                IN  IF previous.some /\ arrived < previous.value + MINIMUM_CPU_UPDATE_INTERVAL
                    THEN /\ process_gauges'.cpu_percent = process_gauges.cpu_percent
                         /\ process_gauges'.open_fds = process_gauges.open_fds
                         /\ system'.last_refresh = previous
                    ELSE /\ process_gauges'.cpu_percent = os_process.cpu_usage
                         /\ system'.last_refresh = Some(arrived) ]_vars

\* A refresh was followed by a collect inside the interval and by one exactly
\* the interval later: the first left the CPU reading stale, the second
\* refreshed it.
C24_Witness ==
    /\ system.last_refresh.some
    /\ system.last_refresh.value = MINIMUM_CPU_UPDATE_INTERVAL
    /\ process_gauges.cpu_percent = 5
    /\ process_gauges.cpu_percent = os_process.cpu_usage
    /\ \A c \in StatsCallers : stats_calls[c].pc = "idle"

(***************************************************************************)
(* InnoDB parser frame.  SpecInnodb.                                       *)
(***************************************************************************)
IntegerToken(token) == token # <<>> /\ digit_run(token) = token

\* The text has a line containing "hash searches/s" whose k-th comma-separated
\* segment begins with an integer
HashSegmentParsed(text, k) ==
    \E j \in LinesWith(text, <<"h", "a", "s", "h", " ", "s", "e", "a", "r", "c", "h", "e", "s", "/", "s">>) :
        LET parts == split(trim(text[j]), <<",">>)
        IN  /\ Len(parts) >= k
            /\ split_whitespace(parts[k]) # <<>>
            /\ IntegerToken(split_whitespace(parts[k])[1])

\* The text has a line from which the gauge is parsed
ParsedFromText(text, gauge) ==
    CASE gauge = "lsn_current" -> NumberLines(text, <<"L", "o", "g", " ", "s", "e", "q", "u", "e", "n", "c", "e", " ", "n", "u", "m", "b", "e", "r">>) # {}
      [] gauge = "lsn_flushed" -> NumberLines(text, <<"L", "o", "g", " ", "f", "l", "u", "s", "h", "e", "d", " ", "u", "p", " ", "t", "o">>) # {}
      [] gauge = "lsn_checkpoint" -> NumberLines(text, <<"L", "a", "s", "t", " ", "c", "h", "e", "c", "k", "p", "o", "i", "n", "t", " ", "a", "t">>) # {}
      [] gauge = "semaphore_waits" ->
            \E j \in LinesWith(text, <<"O", "S", " ", "w", "a", "i", "t", "s">>) :
                digit_run(Following(text[j], <<"O", "S", " ", "w", "a", "i", "t", "s">>)) # <<>>
      [] gauge = "adaptive_hash_searches" -> HashSegmentParsed(text, 1)
      [] gauge = "adaptive_hash_searches_btree" -> HashSegmentParsed(text, 2)
      [] OTHER -> FALSE

\* C25: a parse call writes active_transactions, 0 when no line matches;
\* writes checkpoint_age, as lsn_current - lsn_checkpoint, exactly when the
\* text of that call has both a "Log sequence number N" and a "Last
\* checkpoint at N" line; and leaves every other gauge that no line of the
\* text is parsed into at the value it had before the call.
C25_ParseFrame ==
    [][ innodb_collect(TRUE) =>
            LET text == innodb_status
                both == /\ ParsedFromText(text, "lsn_current")
                        /\ ParsedFromText(text, "lsn_checkpoint")
            IN  /\ "trx_active_transactions" \in written'
                /\ ActiveTransactionsCounted(text)'
                /\ ("checkpoint_age" \in written') = both
                /\ IF both
                   THEN status_parser'.checkpoint_age =
                            status_parser'.lsn_current - status_parser'.lsn_checkpoint
                   ELSE status_parser'.checkpoint_age = status_parser.checkpoint_age
                /\ \A gauge \in DOMAIN status_parser \ {"trx_active_transactions", "checkpoint_age"} :
                        ~ParsedFromText(text, gauge) =>
                            /\ status_parser'[gauge] = status_parser[gauge]
                            /\ gauge \notin written' ]_vars

\* A second call over a text without any matching line has set
\* active_transactions to 0 and left the gauges of the first call in place.
C25_Witness ==
    /\ parse_calls = 2
    /\ parsed_text.some
    /\ parsed_text.value = StatusAdaptiveHash
    /\ written = {"trx_active_transactions", "adaptive_hash_searches", "adaptive_hash_searches_btree"}
    /\ status_parser.trx_active_transactions = 0
    /\ status_parser.lsn_current = 123456789
    /\ status_parser.checkpoint_age = 6789
    /\ status_parser.semaphore_waits = 456

(***************************************************************************)
(* Query response time republication.  SpecQrt.                            *)
(***************************************************************************)
RECURSIVE SumSeconds(_, _)
SumSeconds(rows, J) ==
    IF J = {} THEN 0
    ELSE LET j == CHOOSE k \in J : TRUE
         IN  rows[j].COUNT * parse_f64(trim(rows[j].TIME)).value + SumSeconds(rows, J \ {j})

\* The four bucket rows for the aggregates of rows alone
BucketsOf(rows) ==
    {[labels |-> Le_0_1, value |-> RangeCount(rows, -1, 10)],
     [labels |-> Le_1_0, value |-> RangeCount(rows, -1, 100)],
     [labels |-> Le_10_0, value |-> RangeCount(rows, -1, 1000)],
     [labels |-> Le_Inf, value |-> SumCount(rows, Counted(rows))]}

BadValue(raw) == ~raw.some \/ ~parse_i64(raw.value).some

\* C27: a scrape whose value for a metric is missing or does not parse leaves
\* that metric as it was: the gauge keeps its value, and for Questions
\* neither the counter nor the last-seen value changes; the metrics are at
\* all times those of a collector that never read the bad samples.
C27_BadValueIgnored ==
    [][ samples' = samples + 1 =>
            /\ BadValue(global_status'.Uptime) =>
                   sampled'.global_uptime = sampled.global_uptime
            /\ BadValue(global_status'.Innodb_row_lock_time) =>
                   sampled'.innodb_row_lock_time = sampled.innodb_row_lock_time
            /\ BadValue(global_status'.Questions) =>
                   /\ sampled'.questions_total = sampled.questions_total
                   /\ sampled'.questions_last = sampled.questions_last
            /\ sampled' = clean' ]_vars

\* After valid samples, a scrape with an unparseable Questions value and no
\* Uptime entry has left the counter, its last-seen value and the gauge in
\* place.
C27_Witness ==
    /\ samples >= 2
    /\ global_status.Questions = Some(<<"O", "N">>)
    /\ global_status.Uptime = Missing
    /\ sampled.questions_total = 3
    /\ sampled.questions_last = 3
    /\ sampled.global_uptime = 2

(***************************************************************************)
(* The last-scrape timestamp.  SpecStamp.                                  *)
(***************************************************************************)
\* C28: the last_scrape_timestamp_seconds row of a collector never
\* decreases, whatever the order in which the timers of overlapping scrapes
\* of that collector complete.
C28_TimestampMonotonic ==
    [][last_scrape_timestamp_seconds' >= last_scrape_timestamp_seconds]_vars

(***************************************************************************)
(* Initialisation of the connection state.  SpecPoolInit.                  *)
(***************************************************************************)
\* C29: a set_base_connect_options_from_dsn call made after an earlier call
\* has returned Ok, with the same or another DSN, changes in none of its
\* steps the base connect options, the default database name or the pools
\* in the cache, and returns Ok; and a call that fails on DSN parsing
\* writes none of the three cells, so that while only failed calls have
\* been made all three are unset.
C29_InitIdempotent ==
    [][ /\ \A i \in InitIds :
               inits'[i] # inits[i] /\ inits'[i].further =>
                   /\ UNCHANGED <<BASE_OPTS, DEFAULT_DB, POOLS>>
                   /\ inits'[i].result # "err"
        /\ \A i \in InitIds :
               inits'[i].result = "err" /\ inits[i].result # "err" =>
                   UNCHANGED <<BASE_OPTS, DEFAULT_DB, POOLS>>
        /\ (\A i \in InitIds : inits[i].pc = "idle" \/ inits[i].result = "err") =>
               ~BASE_OPTS.set /\ ~DEFAULT_DB.set /\ ~POOLS.set ]_vars

\* A call with the DSN of database app returned Ok, a pool was cached for
\* mysql, and a further call with a DSN that does not parse returned Ok
\* too: the options, the default database and the cached pool are those of
\* the first call.
C29_Witness ==
    /\ inits[1].result = "ok" /\ inits[1].dsn = [parses |-> TRUE, path |-> "app"]
    /\ inits[2].result = "ok" /\ inits[2].dsn = [parses |-> FALSE, path |-> ""]
    /\ inits[2].further
    /\ BASE_OPTS = [set |-> TRUE, value |-> [parses |-> TRUE, path |-> "app"]]
    /\ DEFAULT_DB = [set |-> TRUE, value |-> "app"]
    /\ POOLS.set /\ POOLS.value["mysql"] # 0

(***************************************************************************)
(* The TLS version row.  SpecTls.                                          *)
(***************************************************************************)
\* C30: after any sequence of TLS collects mariadb_ssl_version_info has at
\* most one {version, cipher} row, that row is the version and cipher read
\* by the most recent collect, and there is no row when that collect set
\* ssl_server_configured to 0.
C30_SingleVersionRow ==
    tls_collects > 0 =>
        /\ Cardinality(ssl_version_info) <= 1
        /\ ssl_server_configured = 0 => ssl_version_info = {}
        /\ \A row \in ssl_version_info :
               /\ ssl_data.Ssl_version = Some(row[1])
               /\ ssl_data.Ssl_cipher = Some(row[2])

================================================================
